---- MODULE Spec2Model ----
(***************************************************************************)
(* Model of genmsg's SLIP framing and transaction layer                    *)
(* (src/slip.py, src/slip_light.py).                                       *)
(*                                                                         *)
(* Spec            : a Slip framer fed arbitrary bytes, one decode() call  *)
(*                   per step.                                             *)
(* SpecTransaction : slip_transaction() of the light variant reading an    *)
(*                   arbitrary byte source.                                *)
(* SpecEncode      : one call of Slip.encode, its loop taken step by step. *)
(* SpecCrc         : one call of SlipPayload.crc16_ccitt, byte by byte.    *)
(***************************************************************************)
EXTENDS Integers, Sequences, FiniteSets, TLC

\* ---------------------------------------------------------------- bounds
\* longest payload handed to encode
MaxLen == 2
\* number of bytes fed to a framer
MaxFeed == 7
\* number of consecutive frames in a well-formed stream
MaxFrames == 2
\* longest arbitrary input of crc16_ccitt (the reference string is longer)
MaxCrcLen == 2
\* the longest data of a frame body handed to get_msg of slip_light
MaxData == 4
\* the most elements rand() puts into an array of variable length
MaxElts == 2
\* the most entries of an enum and fields of a message in a schema to load
MaxEntries == 2
MaxFields == 2
\* the deepest nesting of generating methods, the most lines in the
\* buffers of the methods under way and the most indentations they have made
MaxDepth == 2
MaxLines == 2
MaxLevel == 1

\* ------------------------------------------------------- Slip constants
SLIP_END == 192
SLIP_ESC == 219
SLIP_ESC_END == 220
SLIP_ESC_ESC == 221

\* SlipState
WAIT_END == "Wait End"
ESCAPING == "Escaping"
STORE_INCOMING == "Store Incoming"

\* Python's None / a returned value, kept apart from the empty buffer:
\* None is the empty sequence, a returned value v is <<v>>.
None == << >>
Some(v) == << v >>

\* an ordinary data byte
DataByte == 1
\* the bytes fed to the framer: every byte decode() distinguishes
Bytes == {SLIP_END, SLIP_ESC, SLIP_ESC_END, SLIP_ESC_ESC, DataByte}

\* ---------------------------------------------- the transaction's world
\* pid of the request; its reply has the msb set
ReqPid == 3
\* pid | 0x80
ResponsePid(pid) == IF pid >= 128 THEN pid ELSE pid + 128
RespPid == ResponsePid(ReqPid)
\* pid of an unsolicited notification
NotifPid == 5

\* pids of the messages the codec is exercised with
WordPid == 6
ArrPid == 7
FixPid == 8
EnumPid == 9
BitsPid == 10
CompPid == 11
\* a pid no message is registered for
RawPid == 12
\* pid of a message with a fixed array before its variable array
MixPid == 13

\* StructField(name, field_type, desc): the base type, whether the type
\* has brackets, the array length (-1 for "[]") and the attached enum
\* ("" for None)
StructField(name, base, array, array_len, enum) ==
    [name |-> name, base |-> base, array |-> array,
     array_len |-> array_len, enum |-> enum]
Scalar(name, base) == StructField(name, base, FALSE, 0, "")
FixedArray(name, base, n) == StructField(name, base, TRUE, n, "")
VarArray(name, base) == StructField(name, base, TRUE, -1, "")

\* the enums of the schema: name -> entries (EnumEntry)
Enums ==
    "color" :> << [name |-> "red", value |-> 0],
                  [name |-> "blue", value |-> 2] >>

\* the bitfields of the schema: name -> bits (Bits), in schema order
Bitfields ==
    "flags" :> << [name |-> "mode", position |-> 1, width |-> 2, enum |-> ""],
                  [name |-> "on", position |-> 0, width |-> 1, enum |-> ""],
                  [name |-> "col", position |-> 3, width |-> 1,
                   enum |-> "color"] >>
    @@ "wide" :> << [name |-> "lo", position |-> 0, width |-> 3, enum |-> ""],
                    [name |-> "hi", position |-> 9, width |-> 2,
                     enum |-> ""] >>

\* the types of the schema (MessageElt without id): name -> fields
Types ==
    "point" :> << Scalar("x", "uint8_t"), Scalar("y", "uint16_t") >>

\* the schema the messages module was generated from: id -> fields of the
\* message
Schema ==
    (ReqPid :> << Scalar("v", "uint8_t") >>)
    @@ (RespPid :> << >>)
    @@ (NotifPid :> << Scalar("v", "uint8_t") >>)
    @@ (WordPid :> << Scalar("a", "uint8_t"), Scalar("b", "uint16_t") >>)
    @@ (ArrPid :> << Scalar("n", "uint8_t"), VarArray("arr", "uint16_t") >>)
    @@ (FixPid :> << FixedArray("arr", "uint8_t", 2), Scalar("c", "uint8_t") >>)
    @@ (EnumPid :> << StructField("c", "uint8_t", FALSE, 0, "color") >>)
    @@ (BitsPid :> << Scalar("f", "flags") >>)
    @@ (CompPid :> << Scalar("p", "point"), Scalar("d", "uint8_t") >>)
    @@ (MixPid :> << FixedArray("fix", "uint8_t", 2),
                     VarArray("tail", "uint8_t") >>)

\* the bytes the serial source can deliver
SourceBytes == {SLIP_END, SLIP_ESC, ReqPid, RespPid, NotifPid}

\* the requests handed to slip_transaction: SlipPayload(pid, data)
Requests == {[pid |-> ReqPid, data |-> <<v>>] : v \in {DataByte, SLIP_END}}

VARIABLES
    state,      \* Slip.state
    rx,         \* Slip.rx
    fed,        \* history: the bytes passed to decode(), in order
    rets,       \* history: what decode() returned for each of them
    pc,         \* slip_transaction: "write", "read", "returned", "raised"
    exc,        \* the exception slip_transaction was left by, "" if none
    request,    \* slip_msg
    sink,       \* what serial_fd.write() was called with, in order
    l,          \* the list l of slip_transaction
    silent,     \* the peer has stopped sending: serial_fd.read(1) blocks
    fn,         \* a single call under way: the function and where it stands
    args,       \* its arguments
    locals,     \* its local variables
    retval      \* what it returned (Some) or None while it has not returned

framer == <<state, rx, fed, rets>>
transaction == <<pc, exc, request, sink, l, silent>>
call == <<fn, args, locals, retval>>
vars == <<state, rx, fed, rets, pc, exc, request, sink, l, silent,
          fn, args, locals, retval>>

\* no single call under way
NoCall ==
    /\ fn = "none"
    /\ args = << >>
    /\ locals = << >>
    /\ retval = None

\* ------------------------------------------------------------ Slip.decode
\* variant: WAIT_END keeps the bytes it should discard
DecodeWaitEnd_Storing(buf, b) ==
    [state |-> IF b = SLIP_END THEN STORE_INCOMING ELSE WAIT_END,
     rx    |-> IF b = SLIP_END THEN buf ELSE Append(buf, b),
     ret   |-> None]

\* state == WAIT_END: discard everything until END
DecodeWaitEnd(buf, b) ==
    [state |-> IF b = SLIP_END THEN STORE_INCOMING ELSE WAIT_END,
     rx    |-> buf,
     ret   |-> None]

\* variant: a byte that is no valid escape code is dropped
DecodeEscaping_Dropping(buf, b) ==
    [state |-> STORE_INCOMING,
     rx    |-> IF b = SLIP_ESC_ESC THEN Append(buf, SLIP_ESC)
               ELSE IF b = SLIP_ESC_END THEN Append(buf, SLIP_END)
               ELSE buf,
     ret   |-> None]

\* state == ESCAPING: two bytes can be escaped, anything else is stored as is
DecodeEscaping(buf, b) ==
    [state |-> STORE_INCOMING,
     rx    |-> IF b = SLIP_ESC_ESC THEN Append(buf, SLIP_ESC)
               ELSE IF b = SLIP_ESC_END THEN Append(buf, SLIP_END)
               ELSE Append(buf, b),
     ret   |-> None]

\* variant: the rx buffer is not cleared when a packet ends
DecodeStoreIncoming_NoClear(buf, b) ==
    IF b = SLIP_ESC
    THEN [state |-> ESCAPING, rx |-> buf, ret |-> None]
    ELSE IF b = SLIP_END
    THEN IF Len(buf) > 0
         THEN [state |-> WAIT_END, rx |-> buf, ret |-> Some(buf)]
         ELSE [state |-> STORE_INCOMING, rx |-> buf, ret |-> None]
    ELSE [state |-> STORE_INCOMING, rx |-> Append(buf, b), ret |-> None]

\* variant: END ends a packet even when the rx buffer is empty
DecodeStoreIncoming_EmptyPacket(buf, b) ==
    IF b = SLIP_ESC
    THEN [state |-> ESCAPING, rx |-> buf, ret |-> None]
    ELSE IF b = SLIP_END
    THEN [state |-> WAIT_END, rx |-> << >>, ret |-> Some(buf)]
    ELSE [state |-> STORE_INCOMING, rx |-> Append(buf, b), ret |-> None]

\* state == STORE_INCOMING
DecodeStoreIncoming(buf, b) ==
    IF b = SLIP_ESC
    THEN [state |-> ESCAPING, rx |-> buf, ret |-> None]
    ELSE IF b = SLIP_END
    THEN IF Len(buf) > 0
         THEN [state |-> WAIT_END, rx |-> << >>, ret |-> Some(buf)]
         ELSE [state |-> STORE_INCOMING, rx |-> buf, ret |-> None]
    ELSE [state |-> STORE_INCOMING, rx |-> Append(buf, b), ret |-> None]

decode(st, buf, b) ==
    IF st = WAIT_END THEN DecodeWaitEnd(buf, b)
    ELSE IF st = ESCAPING THEN DecodeEscaping(buf, b)
    ELSE IF st = STORE_INCOMING THEN DecodeStoreIncoming(buf, b)
    ELSE [state |-> st, rx |-> buf, ret |-> None]

\* ------------------------------------------------------------ Slip.encode
\* variant: the two escape codes are swapped
EscapeByte_Swapped(b) ==
    IF b = SLIP_END THEN <<SLIP_ESC, SLIP_ESC_ESC>>
    ELSE IF b = SLIP_ESC THEN <<SLIP_ESC, SLIP_ESC_END>>
    ELSE <<b>>

\* variant: ESC bytes of buf are not escaped
EscapeByte_EscVerbatim(b) ==
    IF b = SLIP_END THEN <<SLIP_ESC, SLIP_ESC_END>> ELSE <<b>>

\* variant: END bytes of buf are not escaped
EscapeByte_EndVerbatim(b) ==
    IF b = SLIP_ESC THEN <<SLIP_ESC, SLIP_ESC_ESC>> ELSE <<b>>

\* the bytes emitted for one byte of buf
EscapeByte(b) ==
    IF b = SLIP_END THEN <<SLIP_ESC, SLIP_ESC_END>>
    ELSE IF b = SLIP_ESC THEN <<SLIP_ESC, SLIP_ESC_ESC>>
    ELSE <<b>>

\* the loop over buf
RECURSIVE EncodeBody(_)
EncodeBody(buf) ==
    IF buf = << >> THEN << >>
    ELSE EscapeByte(Head(buf)) \o EncodeBody(Tail(buf))

encode(buf) == <<SLIP_END>> \o EncodeBody(buf) \o <<SLIP_END>>

\* ---------------------------------------------------------------- framer
\* Slip.__init__
SlipInit ==
    /\ state = WAIT_END
    /\ rx = << >>
    /\ fed = << >>
    /\ rets = << >>

\* a framer on its own, no transaction in progress
Init ==
    /\ SlipInit
    /\ pc = "none"
    /\ exc = ""
    /\ request = [pid |-> ReqPid, data |-> <<DataByte>>]
    /\ sink = << >>
    /\ l = << >>
    /\ silent = FALSE
    /\ NoCall

\* one call self.slip.decode(b)
SlipDecode(b) ==
    /\ Len(fed) < MaxFeed
    /\ LET r == decode(state, rx, b) IN
        /\ state' = r.state
        /\ rx' = r.rx
        /\ rets' = Append(rets, r.ret)
    /\ fed' = Append(fed, b)
    /\ UNCHANGED <<transaction, call>>

Next == \E b \in Bytes : SlipDecode(b)

Spec == Init /\ [][Next]_vars

\* ------------------------------------------------- messages (generated)
\* msg_map: the ids registered by the generated module; a generated class
\* is represented by the fields of its message
msg_map == Schema

\* StructField.ctype_to_struct_fmt
ctype_to_struct_fmt == ("uint8_t" :> "B") @@ ("uint16_t" :> "H")

\* StructField.ctype_range: the largest value of the unsigned types
ctype_max == ("uint8_t" :> 255) @@ ("uint16_t" :> 65535)

\* 2 ** n
RECURSIVE Pow2(_)
Pow2(n) == IF n = 0 THEN 1 ELSE 2 * Pow2(n - 1)

Max(S) == CHOOSE x \in S : \A y \in S : y <= x

\* EnumElt.get_enum_bit_width: ceil(log2(max value + 1))
get_enum_bit_width(entries) ==
    LET max_val == Max({0} \cup {entries[i].value : i \in DOMAIN entries})
    IN  CHOOSE w \in 0..32 :
            /\ Pow2(w) >= max_val + 1
            /\ \A v \in 0..(w - 1) : Pow2(v) < max_val + 1

\* BitField.__init__: the bits of a bitfield, the width of a bit with an
\* enum attached overridden by the width the enum needs
BitFieldBits(name) ==
    [i \in DOMAIN Bitfields[name] |->
        LET bit == Bitfields[name][i]
        IN  IF bit.enum = "" THEN bit
            ELSE [bit EXCEPT !.width = get_enum_bit_width(Enums[bit.enum])]]

\* Bits.upper_bit_pos
upper_bit_pos(bit) == bit.position + bit.width - 1

\* BitField.get_bitwidth
get_bitwidth(name) ==
    Max({0} \cup {upper_bit_pos(BitFieldBits(name)[i]) :
                    i \in DOMAIN Bitfields[name]}) + 1

\* bitwidth_to_ctype
bitwidth_to_ctype(bitwidth) ==
    IF bitwidth <= 8 THEN "uint8_t"
    ELSE IF bitwidth <= 16 THEN "uint16_t" ELSE "uint32_t"

\* StructField.is_ctype, is_bitfield
is_ctype(f) == f.base \in DOMAIN ctype_to_struct_fmt
is_bitfield(f) == f.base \in DOMAIN Bitfields

\* the struct character of the base type of a field, of the word of a
\* bitfield, "s" for a compound type
FmtChar(f) ==
    IF is_ctype(f) THEN ctype_to_struct_fmt[f.base]
    ELSE IF is_bitfield(f)
    THEN ctype_to_struct_fmt[bitwidth_to_ctype(get_bitwidth(f.base))]
    ELSE "s"

\* StructField.get_field_fmt: the format of the field as an item
\* [n, c] of a struct format, n being the count in front of the character
\* c (the count of a field of variable length or of a compound type is
\* given at run time)
get_field_fmt(f, count) ==
    [n |-> IF ~(is_ctype(f) \/ is_bitfield(f)) THEN count
           ELSE IF ~f.array THEN 1
           ELSE IF f.array_len > 0 THEN f.array_len
           ELSE count,
     c |-> FmtChar(f)]

\* a sequence repeated n times
RECURSIVE Repeat(_, _)
Repeat(n, seq) == IF n <= 0 THEN << >> ELSE seq \o Repeat(n - 1, seq)

\* the concatenation of the sequences of a sequence
RECURSIVE Flatten(_)
Flatten(seqs) ==
    IF seqs = << >> THEN << >> ELSE Head(seqs) \o Flatten(Tail(seqs))

\* Msg.struct_fmt(data): the concatenated formats of the fields; the
\* format of a compound type once, array_len times or len(data) times
RECURSIVE struct_fmt(_, _)
struct_fmt(cls, data) ==
    Flatten([i \in DOMAIN cls |->
        IF is_ctype(cls[i]) \/ is_bitfield(cls[i])
        THEN << get_field_fmt(cls[i], Len(data)) >>
        ELSE Repeat(IF ~cls[i].array THEN 1
                    ELSE IF cls[i].array_len > 0 THEN cls[i].array_len
                    ELSE Len(data),
                    struct_fmt(Types[cls[i].base], data))])

\* struct: the size of one item of a format character
ItemSize(c) == IF c = "H" THEN 2 ELSE 1

\* struct.calcsize(fmt) from an offset on, native mode: an item is aligned
\* to its size
RECURSIVE CalcsizeFrom(_, _)
CalcsizeFrom(offset, fmt) ==
    IF fmt = << >> THEN offset
    ELSE LET sz == ItemSize(Head(fmt).c)
             aligned == ((offset + sz - 1) \div sz) * sz
         IN  CalcsizeFrom(aligned + Head(fmt).n * sz, Tail(fmt))

\* struct.calcsize of a format without byte order character (native size
\* and alignment)
calcsize(fmt) == CalcsizeFrom(0, fmt)

\* struct.calcsize("<%s" % fmt): standard sizes, no alignment
RECURSIVE calcsize_std(_)
calcsize_std(fmt) ==
    IF fmt = << >> THEN 0
    ELSE Head(fmt).n * ItemSize(Head(fmt).c) + calcsize_std(Tail(fmt))

\* "%d" % (a / b): the quotient truncated towards zero
TruncDiv(a, b) == IF a >= 0 THEN a \div b ELSE -((-a) \div b)

\* data[offset:]
SliceFrom(data, offset) ==
    IF offset >= Len(data) THEN << >>
    ELSE SubSeq(data, offset + 1, Len(data))

\* as many "%ds" % elt_sz items as whole elements fit into array_sz
SizedItems(array_sz, elt_sz) ==
    Repeat(TruncDiv(array_sz, elt_sz), << [n |-> elt_sz, c |-> "s"] >>)

\* Msg.get_unpack_struct_fmt(data): the fields left to format, after the
\* format fmt of the fields before them. A field of a basic type or a
\* bitfield is an item of its character (its count computed from the data
\* left when the length is variable), a compound value is one "s" item of
\* the native size of its own format.
RECURSIVE UnpackFmtFrom(_, _, _)
UnpackFmtFrom(fmt, cls, data) ==
    IF cls = << >> THEN fmt
    ELSE UnpackFmtFrom(
            fmt \o
            (IF is_ctype(Head(cls)) \/ is_bitfield(Head(cls))
             THEN << get_field_fmt(Head(cls),
                        TruncDiv(Len(data) - calcsize(fmt),
                                 ItemSize(FmtChar(Head(cls))))) >>
             ELSE IF Head(cls).array /\ Head(cls).array_len <= 0
             THEN SizedItems(Len(data) - calcsize_std(fmt),
                             calcsize(struct_fmt(Types[Head(cls).base], << >>)))
             ELSE Repeat(IF Head(cls).array THEN Head(cls).array_len ELSE 1,
                    << get_field_fmt(Head(cls),
                        calcsize(UnpackFmtFrom(<< >>, Types[Head(cls).base],
                            IF Head(cls).array THEN << >>
                            ELSE SliceFrom(data, calcsize(fmt))))) >>)),
            Tail(cls), data)

get_unpack_struct_fmt(cls, data) == UnpackFmtFrom(<< >>, cls, data)

\* struct.unpack("<%s" % fmt, data) raises struct.error: a negative count
\* is no format, and the buffer must have the size of the format
UnpackFails(fmt, data) ==
    \/ \E i \in DOMAIN fmt : fmt[i].n < 0
    \/ calcsize_std(fmt) # Len(data)

\* the n little-endian values of c.size bytes at the front of data
RECURSIVE ItemValues(_, _, _)
ItemValues(n, c, data) ==
    IF n = 0 THEN << >>
    ELSE << IF c = "H" THEN data[1] + 256 * data[2] ELSE data[1] >>
         \o ItemValues(n - 1, c, SliceFrom(data, ItemSize(c)))

\* struct.unpack("<%s" % fmt, data): the values, one per item of a numeric
\* character and one byte string per "s" item
RECURSIVE struct_unpack(_, _)
struct_unpack(fmt, data) ==
    IF fmt = << >> THEN << >>
    ELSE LET it == Head(fmt)
             sz == it.n * ItemSize(it.c)
         IN  (IF it.c = "s" THEN << SubSeq(data, 1, it.n) >>
              ELSE ItemValues(it.n, it.c, data))
             \o struct_unpack(Tail(fmt), SliceFrom(data, sz))

\* the values of the members of a generated Enum class
EnumValues(name) == {Enums[name][i].value : i \in DOMAIN Enums[name]}

\* a | b
RECURSIVE BitOr(_, _)
BitOr(a, b) ==
    IF a = 0 THEN b
    ELSE IF b = 0 THEN a
    ELSE (IF a % 2 = 1 \/ b % 2 = 1 THEN 1 ELSE 0)
         + 2 * BitOr(a \div 2, b \div 2)

\* the assertion of the value setter of a generated bit class (the
\* constructor assigns through it): 0 or 1 for a bit of width 1,
\* ((value | mask) >> width) == 0 for a wider one, a value of the enum for
\* a bit with an enum attached
BitAccepts(bit, value) ==
    IF bit.enum # "" THEN value \in EnumValues(bit.enum)
    ELSE IF bit.width = 1 THEN value = 0 \/ value = 1
    ELSE value >= 0 /\ BitOr(value, Pow2(bit.width) - 1) \div Pow2(bit.width) = 0

\* variant: the bit value is packed unshifted
Bits_pack_Unshifted(bit, value) == value

\* the pack method of a generated bit class: value << position
Bits_pack(bit, value) == value * Pow2(bit.position)

\* the unpack method of a generated bit class:
\* (data >> cls.position) & ((1 << cls.width) - 1)
Bits_unpack(bit, data) == (data \div Pow2(bit.position)) % Pow2(bit.width)

\* the constructor of a generated bitfield class: one value per bit, each
\* assigned through the setter of its bit class
BitField(name, values) ==
    IF \A i \in DOMAIN values : BitAccepts(BitFieldBits(name)[i], values[i])
    THEN [raised |-> "", val |-> values]
    ELSE [raised |-> "AssertionError", val |-> None]

\* the pack method of a generated bitfield class: the packed bits or-ed
RECURSIVE BitField_packFrom(_, _, _)
BitField_packFrom(name, inst, i) ==
    IF i > Len(inst) THEN 0
    ELSE BitOr(Bits_pack(BitFieldBits(name)[i], inst[i]),
               BitField_packFrom(name, inst, i + 1))

BitField_pack(name, inst) == BitField_packFrom(name, inst, 1)

\* the unpack method of a generated bitfield class: every bit unpacked
\* from the word, then the constructor
BitField_unpack(name, data) ==
    BitField(name, [i \in DOMAIN BitFieldBits(name) |->
                        Bits_unpack(BitFieldBits(name)[i], data)])

\* the index in unpacked the value of field i starts at, less one: a field
\* of variable length does not advance it
RECURSIVE FieldOffset(_, _)
FieldOffset(cls, i) ==
    IF i = 1 THEN 0
    ELSE LET f == cls[i - 1]
         IN  FieldOffset(cls, i - 1)
             + (IF ~f.array THEN 1
                ELSE IF f.array_len > 0 THEN f.array_len ELSE 0)

\* the result of a sequence of calls: the first exception, or the values
Collect(results) ==
    IF \E i \in DOMAIN results : results[i].raised # ""
    THEN [raised |->
            results[CHOOSE i \in DOMAIN results :
                        /\ results[i].raised # ""
                        /\ \A j \in 1..(i - 1) : results[j].raised = ""].raised,
          val |-> None]
    ELSE [raised |-> "", val |-> [i \in DOMAIN results |-> results[i].val]]

\* an enum member from a value: ValueError when no member has the value
EnumMember(f, v) ==
    IF f.enum = "" \/ v \in EnumValues(f.enum)
    THEN [raised |-> "", val |-> v]
    ELSE [raised |-> "ValueError", val |-> None]

\* the slice of unpacked that holds field i: one value for a field that is
\* no array, array_len values for an array, the rest for a variable one
FieldSlice(cls, i, unpacked) ==
    IF ~cls[i].array
    THEN SubSeq(unpacked, FieldOffset(cls, i) + 1, FieldOffset(cls, i) + 1)
    ELSE IF cls[i].array_len > 0
    THEN SubSeq(unpacked, FieldOffset(cls, i) + 1,
                FieldOffset(cls, i) + cls[i].array_len)
    ELSE SliceFrom(unpacked, FieldOffset(cls, i))

\* the value of a field that is no array from the values converted from
\* its slice: IndexError when unpacked has no value at its index
ScalarOf(f, converted) ==
    IF f.array \/ converted.raised # "" THEN converted
    ELSE IF converted.val = << >>
    THEN [raised |-> "IndexError", val |-> None]
    ELSE [raised |-> "", val |-> converted.val[1]]

\* Msg.unpack(data): the format from the data, struct.unpack, the slice of
\* every field and its conversion (bitfield, enum member, compound type),
\* the bitfields of an array being left as they are
RECURSIVE unpack(_, _)
Convert(f, elts) ==
    ScalarOf(f,
        IF is_ctype(f)
        THEN Collect([k \in DOMAIN elts |-> EnumMember(f, elts[k])])
        ELSE IF is_bitfield(f)
        THEN IF f.array THEN [raised |-> "", val |-> elts]
             ELSE Collect([k \in DOMAIN elts |-> BitField_unpack(f.base, elts[k])])
        ELSE Collect([k \in DOMAIN elts |-> unpack(Types[f.base], elts[k])]))

\* the fields assigned from the values struct.unpack gave, unless it raised
Assign(cls, data, fmt) ==
    IF UnpackFails(fmt, data)
    THEN [raised |-> "struct.error", val |-> None]
    ELSE Collect([i \in DOMAIN cls |->
            Convert(cls[i], FieldSlice(cls, i, struct_unpack(fmt, data)))])

unpack(cls, data) ==
    IF cls = << >> THEN [raised |-> "", val |-> << >>]
    ELSE Assign(cls, data, get_unpack_struct_fmt(cls, data))

\* msg_creator(msg_id, msg_len, data): the decoded message, or the data
\* as they are for an id that is not registered
msg_creator(msg_id, data) ==
    IF msg_id \in DOMAIN msg_map THEN unpack(msg_map[msg_id], data)
    ELSE [raised |-> "", val |-> data]

\* the characters of a format, every count written out
RECURSIVE Expand(_)
Expand(fmt) ==
    IF fmt = << >> THEN << >>
    ELSE Repeat(Head(fmt).n, << Head(fmt).c >>) \o Expand(Tail(fmt))

\* the little-endian bytes of the values, one per character
RECURSIVE ItemBytes(_, _)
ItemBytes(chars, values) ==
    IF chars = << >> THEN << >>
    ELSE (IF Head(chars) = "H"
          THEN << Head(values) % 256, Head(values) \div 256 >>
          ELSE << Head(values) >>)
         \o ItemBytes(Tail(chars), Tail(values))

\* struct.pack("<%s" % fmt, *va_args): struct.error unless there is one
\* value per character and every value is in the range of its character
struct_pack(fmt, va_args) ==
    LET chars == Expand(fmt)
    IN  IF \/ Len(chars) # Len(va_args)
           \/ \E i \in DOMAIN chars :
                \/ va_args[i] < 0
                \/ va_args[i] >= Pow2(8 * ItemSize(chars[i]))
        THEN [raised |-> "struct.error", val |-> None]
        ELSE [raised |-> "", val |-> ItemBytes(chars, va_args)]

\* the value of the last field that is an array, None (empty) if there is
\* none: array_name of get_pack_py_def
LastArray(cls, inst) ==
    IF \E i \in DOMAIN cls : cls[i].array
    THEN inst[Max({i \in DOMAIN cls : cls[i].array})]
    ELSE << >>

\* va_args of Msg.pack: the value of a scalar, the values of an array, the
\* packed word of a bitfield, the fields of a compound value
VaArgs(cls, inst) ==
    Flatten([i \in DOMAIN cls |->
        LET f == cls[i]
        IN  IF is_bitfield(f)
            THEN IF ~f.array THEN << BitField_pack(f.base, inst[i]) >>
                 ELSE [k \in DOMAIN inst[i] |->
                            BitField_pack(f.base, inst[i][k])]
            ELSE IF is_ctype(f)
            THEN IF ~f.array THEN << inst[i] >> ELSE inst[i]
            ELSE IF ~f.array THEN inst[i]
            ELSE Flatten(inst[i])])

\* Msg.pack(): struct.pack of va_args under "<" + struct_fmt(array_name)
Msg_pack(cls, inst) ==
    struct_pack(struct_fmt(cls, LastArray(cls, inst)), VaArgs(cls, inst))

\* the value of the first field that is an array, None (empty) if there
\* is none: array_name of get_len
FirstArray(cls, inst) ==
    IF \E i \in DOMAIN cls : cls[i].array
    THEN inst[CHOOSE i \in DOMAIN cls :
                /\ cls[i].array
                /\ \A j \in 1..(i - 1) : ~cls[j].array]
    ELSE << >>

\* Msg.__len__(): struct.calcsize("<%s" % self.struct_fmt(array_name))
Msg_len(cls, inst) == calcsize_std(struct_fmt(cls, FirstArray(cls, inst)))

\* ----------------------------------------------------------- SlipPayload
\* the payload made of pid and the data msg_creator gave, or the exception
\* msg_creator raised
Payload(pid, m) ==
    IF m.raised # "" THEN [raised |-> m.raised, msg |-> None]
    ELSE [raised |-> "", msg |-> Some([pid |-> pid, data |-> m.val])]

\* SlipPayload.__init__ of slip_light: self.pid = pid;
\* self.data = messages.msg_creator(self.pid, len(data), data)
SlipPayload(pid, data) == Payload(pid, msg_creator(pid, data))

\* SlipPayload.pack of slip_light: the pid byte, then the data: as they
\* are when they are bytes (the pid is not registered), packed by the
\* message when they are a message that is not empty
pack(msg) ==
    <<msg.pid>> \o
        (IF msg.pid \notin DOMAIN msg_map THEN msg.data
         ELSE IF Msg_len(msg_map[msg.pid], msg.data) > 0
         THEN Msg_pack(msg_map[msg.pid], msg.data).val
         ELSE << >>)

\* SlipPayload.get_msg(data) of slip_light: what it returns (msg) or the
\* exception it raises (raised)
get_msg(data) ==
    IF data[1] \notin DOMAIN msg_map
    THEN [raised |-> "KeyError", msg |-> None]
    ELSE IF Len(data) - 1 # calcsize(struct_fmt(msg_map[data[1]], data))
    THEN [raised |-> "", msg |-> None]
    ELSE SlipPayload(data[1], Tail(data))

\* ------------------------------------------------------ slip_transaction
\* variant: the reply is expected under the request's own pid
IsReply_SamePid(rx_slip_msg, slip_msg) == rx_slip_msg.pid = slip_msg.pid

\* rx_slip_msg.pid == (slip_msg.pid | 0x80)
IsReply(rx_slip_msg, slip_msg) == rx_slip_msg.pid = ResponsePid(slip_msg.pid)

\* variant: the message is put at the front of the list
ListAppend_Front(lst, e) == <<e>> \o lst

\* l.append(rx_slip_msg)
ListAppend(lst, e) == Append(lst, e)

\* slip = Slip(); the request is the caller's
InitTransaction ==
    /\ SlipInit
    /\ pc = "write"
    /\ exc = ""
    /\ request \in Requests
    /\ sink = << >>
    /\ l = << >>
    /\ silent = FALSE
    /\ NoCall

\* tx_buf = slip.encode(slip_msg.pack()); serial_fd.write(tx_buf)
Write ==
    /\ pc = "write"
    /\ sink' = Append(sink, encode(pack(request)))
    /\ pc' = "read"
    /\ UNCHANGED <<framer, exc, request, l, silent, call>>

\* one turn of the loop: b = serial_fd.read(1), decode, and when a frame is
\* complete get_msg, append, compare the pid
Read(b) ==
    /\ pc = "read"
    /\ ~silent
    /\ LET r == decode(state, rx, b) IN
        /\ state' = r.state
        /\ rx' = r.rx
        /\ rets' = Append(rets, r.ret)
        /\ fed' = Append(fed, b)
        /\ IF r.ret = None
           THEN UNCHANGED <<pc, exc, l>>
           ELSE LET g == get_msg(r.ret[1]) IN
                IF g.raised # ""
                THEN pc' = "raised" /\ exc' = g.raised /\ l' = l
                ELSE /\ l' = ListAppend(l, g.msg)
                     /\ IF g.msg = None
                        THEN pc' = "raised" /\ exc' = "AttributeError"
                        ELSE IF IsReply(g.msg[1], request)
                        THEN pc' = "returned" /\ exc' = exc
                        ELSE UNCHANGED <<pc, exc>>
    \* the peer sends MaxFeed bytes at most
    /\ silent' = (Len(fed) + 1 >= MaxFeed)
    /\ UNCHANGED <<request, sink, call>>

\* the peer sends nothing more; serial_fd.read(1) of a port opened without
\* a timeout then blocks
PeerStops ==
    /\ pc = "read"
    /\ ~silent
    /\ silent' = TRUE
    /\ UNCHANGED <<framer, pc, exc, request, sink, l, call>>

NextTransaction ==
    \/ Write
    \/ \E b \in SourceBytes : Read(b)
    \/ PeerStops

SpecTransaction == InitTransaction /\ [][NextTransaction]_vars

\* the interpreter runs the transaction whenever it is not blocked in read
FairSpecTransaction ==
    /\ SpecTransaction
    /\ WF_vars(Write)
    /\ WF_vars(\E b \in SourceBytes : Read(b))

\* ------------------------------------------------------------ input sets
SeqsUpTo(S, n) == UNION {[1..k -> S] : k \in 0..n}

\* the buffers handed to encode
Payloads == SeqsUpTo(Bytes, MaxLen)
NonEmptyPayloads == Payloads \ {<< >>}

\* lists of at most n non-empty payloads whose encoded stream fits in budget
RECURSIVE ListsWithin(_, _)
ListsWithin(n, budget) ==
    {<< >>} \cup
    (IF n = 0 THEN {}
     ELSE UNION {{<<p>> \o t : t \in ListsWithin(n - 1, budget - Len(p) - 2)} :
                 p \in {q \in NonEmptyPayloads : Len(q) + 2 <= budget}})

FrameLists == ListsWithin(MaxFrames, MaxFeed) \ {<< >>}

\* encode(b1) ++ ... ++ encode(bn)
RECURSIVE StreamOf(_)
StreamOf(bs) ==
    IF bs = << >> THEN << >> ELSE encode(Head(bs)) \o StreamOf(Tail(bs))

\* --------------------------------------------- Slip.encode, step by step
\* no framer and no transaction take part in a single call
Detached ==
    /\ SlipInit
    /\ pc = "none"
    /\ exc = ""
    /\ request = [pid |-> ReqPid, data |-> <<DataByte>>]
    /\ sink = << >>
    /\ l = << >>
    /\ silent = FALSE

\* encode(buf) is called
InitEncode ==
    /\ Detached
    /\ fn = "encode"
    /\ args \in {[buf |-> b] : b \in Payloads}
    /\ locals = [ret |-> << >>, i |-> 0]
    /\ retval = None

\* ret = bytes([cls.SLIP_END])
EncodeHeader ==
    /\ fn = "encode"
    /\ fn' = "encode.for"
    /\ locals' = [ret |-> <<SLIP_END>>, i |-> 1]
    /\ UNCHANGED <<framer, transaction, args, retval>>

\* one turn of: for b in buf
EncodeLoop ==
    /\ fn = "encode.for"
    /\ locals.i <= Len(args.buf)
    /\ locals' = [ret |-> locals.ret \o EscapeByte(args.buf[locals.i]),
                  i   |-> locals.i + 1]
    /\ UNCHANGED <<framer, transaction, fn, args, retval>>

\* ret += bytes([cls.SLIP_END]); return ret
EncodeFooter ==
    /\ fn = "encode.for"
    /\ locals.i > Len(args.buf)
    /\ fn' = "encode.returned"
    /\ locals' = [locals EXCEPT !.ret = locals.ret \o <<SLIP_END>>]
    /\ retval' = Some(locals.ret \o <<SLIP_END>>)
    /\ UNCHANGED <<framer, transaction, args>>

NextEncode == EncodeHeader \/ EncodeLoop \/ EncodeFooter

SpecEncode == InitEncode /\ [][NextEncode]_vars

\* -------------------------------------------- SlipPayload.crc16_ccitt
\* Python's ^ , >> and << on non-negative integers
RECURSIVE Xor(_, _)
Xor(a, b) ==
    IF a = 0 THEN b
    ELSE IF b = 0 THEN a
    ELSE (((a % 2) + (b % 2)) % 2) + 2 * Xor(a \div 2, b \div 2)

Shr(x, n) == x \div (2 ^ n)
Shl(x, n) == x * (2 ^ n)

\* variant: the low byte is folded with x << 4 instead of x << 5
CrcByte_Shift4(msb, lsb, c) ==
    LET x0 == Xor(c, msb)
        x  == Xor(x0, Shr(x0, 4))
    IN  [msb |-> Xor(Xor(lsb, Shr(x, 3)), Shl(x, 4)) % 256,
         lsb |-> Xor(x, Shl(x, 4)) % 256]

\* the body of: for c in data
CrcByte(msb, lsb, c) ==
    LET x0 == Xor(c, msb)
        x  == Xor(x0, Shr(x0, 4))
    IN  [msb |-> Xor(Xor(lsb, Shr(x, 3)), Shl(x, 4)) % 256,
         lsb |-> Xor(x, Shl(x, 5)) % 256]

\* the loop from (msb, lsb) over data
RECURSIVE CrcFold(_, _, _)
CrcFold(msb, lsb, data) ==
    IF data = << >> THEN Shl(msb, 8) + lsb
    ELSE LET r == CrcByte(msb, lsb, Head(data))
         IN  CrcFold(r.msb, r.lsb, Tail(data))

crc16_ccitt(crc, data) == CrcFold(Shr(crc, 8), crc % 256, data)

\* the ASCII bytes of "123456789"
CrcCheckString == <<49, 50, 51, 52, 53, 54, 55, 56, 57>>

\* the bytes of the arbitrary inputs
CrcBytes == {0, 1, 49, 128, 219, 255}

CrcInputs == SeqsUpTo(CrcBytes, MaxCrcLen) \cup {CrcCheckString}

\* crc16_ccitt(crc, data) is called; msb = crc >> 8; lsb = crc & 255
InitCrc ==
    /\ Detached
    /\ fn = "crc16_ccitt.for"
    /\ args \in {[crc |-> c, data |-> d] : c \in {65535, 0}, d \in CrcInputs}
    /\ locals = [msb |-> Shr(args.crc, 8), lsb |-> args.crc % 256, i |-> 1]
    /\ retval = None

\* one turn of: for c in data
CrcLoop ==
    /\ fn = "crc16_ccitt.for"
    /\ locals.i <= Len(args.data)
    /\ LET r == CrcByte(locals.msb, locals.lsb, args.data[locals.i])
       IN  locals' = [msb |-> r.msb, lsb |-> r.lsb, i |-> locals.i + 1]
    /\ UNCHANGED <<framer, transaction, fn, args, retval>>

\* return (msb << 8) + lsb
CrcReturn ==
    /\ fn = "crc16_ccitt.for"
    /\ locals.i > Len(args.data)
    /\ fn' = "crc16_ccitt.returned"
    /\ retval' = Some(Shl(locals.msb, 8) + locals.lsb)
    /\ UNCHANGED <<framer, transaction, args, locals>>

NextCrc == CrcLoop \/ CrcReturn

SpecCrc == InitCrc /\ [][NextCrc]_vars

\* ------------------------------------------------- slip.py: SlipPayload
\* header_size = struct.calcsize("<BBB"), crc_size = struct.calcsize("<H")
header_size == 3
crc_size == 2

\* SlipPayload.pack of slip.py: pid, seq and the length of the data, the
\* data, then the CRC of all of them, low byte first
slip_pack(msg) ==
    LET data == pack([pid |-> msg.pid, data |-> msg.data])
        body == <<msg.pid, msg.seq, Len(data) - 1>> \o Tail(data)
        crc == crc16_ccitt(65535, body)
    IN  body \o <<crc % 256, crc \div 256>>

\* variant: the CRC bytes are not counted
expected_length_NoCrc(data) == Len(data) - header_size

\* expected_length = len(data) - header_size - crc_size
expected_length(data) == Len(data) - header_size - crc_size

\* variant: the CRC is computed over the data without the header
computed_crc_NoHeader(data, length) ==
    crc16_ccitt(65535, SubSeq(data, header_size + 1, header_size + length))

\* computed_crc = cls.crc16_ccitt(0xFFFF, data[:header_size + length])
computed_crc(data, length) ==
    crc16_ccitt(65535, SubSeq(data, 1, header_size + length))

\* the frame bodies get_msg is called with: too short for a header, and
\* header, data and CRC with a length field and a CRC right or wrong
HeavyPids == {ReqPid, WordPid, RawPid}
HeavyData == SeqsUpTo({DataByte, SLIP_END}, MaxLen)
HeavyBodies ==
    SeqsUpTo({ReqPid}, header_size - 1)
    \cup UNION {
        LET body == <<pid, seq, length>> \o d
            crc == crc16_ccitt(65535, body)
        IN  { body \o <<crc % 256, crc \div 256>>,
              body \o <<(crc + 1) % 256, crc \div 256>> } :
        pid \in HeavyPids, seq \in {0, 1},
        length \in 0..(MaxLen + 1), d \in HeavyData }

\* get_msg(data) of slip.py is called
InitHeavy ==
    /\ Detached
    /\ fn = "slip.get_msg"
    /\ args \in {[data |-> d] : d \in HeavyBodies}
    /\ locals = << >>
    /\ retval = None

\* (pid, seq, length) = struct.unpack(header_fmt, data[0:header_size])
HeavyHeader ==
    /\ fn = "slip.get_msg"
    /\ IF Len(args.data) < header_size
       THEN /\ fn' = "slip.get_msg.raised"
            /\ locals' = [exc |-> "struct.error"]
       ELSE /\ fn' = "slip.get_msg.length"
            /\ locals' = [pid |-> args.data[1], seq |-> args.data[2],
                          length |-> args.data[3]]
    /\ UNCHANGED <<framer, transaction, args, retval>>

\* if length != expected_length: return None
HeavyLength ==
    /\ fn = "slip.get_msg.length"
    /\ fn' = IF locals.length # expected_length(args.data)
             THEN "slip.get_msg.returned" ELSE "slip.get_msg.crc"
    /\ UNCHANGED <<framer, transaction, args, locals, retval>>

\* (crc,) = struct.unpack(crc_fmt, data[header_size + length:]);
\* if crc != computed_crc: return None
HeavyCrc ==
    /\ fn = "slip.get_msg.crc"
    /\ LET tail == SliceFrom(args.data, header_size + locals.length)
       IN  IF Len(tail) # crc_size
           THEN /\ fn' = "slip.get_msg.raised"
                /\ locals' = [exc |-> "struct.error"]
           ELSE /\ fn' = IF tail[1] + 256 * tail[2]
                                # computed_crc(args.data, locals.length)
                         THEN "slip.get_msg.returned" ELSE "slip.get_msg.build"
                /\ locals' = locals
    /\ UNCHANGED <<framer, transaction, args, retval>>

\* msg = cls(pid, seq, data[header_size:-crc_size]); return msg
HeavyBuild ==
    /\ fn = "slip.get_msg.build"
    /\ \E m \in {msg_creator(locals.pid,
                    SubSeq(args.data, header_size + 1,
                           Len(args.data) - crc_size))} :
           IF m.raised # ""
           THEN /\ fn' = "slip.get_msg.raised"
                /\ locals' = [exc |-> m.raised]
                /\ retval' = retval
           ELSE /\ fn' = "slip.get_msg.returned"
                /\ locals' = locals
                /\ retval' = Some([pid |-> locals.pid, seq |-> locals.seq,
                                   data |-> m.val])
    /\ UNCHANGED <<framer, transaction, args>>

NextHeavy == HeavyHeader \/ HeavyLength \/ HeavyCrc \/ HeavyBuild

SpecHeavy == InitHeavy /\ [][NextHeavy]_vars

\* -------------------------------------------- slip_light.py: get_msg
\* the frame bodies get_msg is called with: a pid, registered or not, and
\* data of every length (0 and 8 are a member and no member of the enum)
LightBytes == {0, DataByte, 8}
LightBodies ==
    {<<pid>> \o d : pid \in DOMAIN msg_map \cup {RawPid},
                    d \in SeqsUpTo(LightBytes, MaxData)}

\* get_msg(data) of slip_light.py is called
InitLight ==
    /\ Detached
    /\ fn = "get_msg"
    /\ args \in {[data |-> d] : d \in LightBodies}
    /\ locals = << >>
    /\ retval = None

\* (pid,) = struct.unpack(header_fmt, data[0:header_size]);
\* length = len(data) - header_size
LightHeader ==
    /\ fn = "get_msg"
    /\ fn' = "get_msg.length"
    /\ locals' = [pid |-> args.data[1], length |-> Len(args.data) - 1]
    /\ UNCHANGED <<framer, transaction, args, retval>>

\* expected_length = struct.calcsize(messages.msg_map[pid].struct_fmt(data));
\* if length != expected_length: return None
LightLength ==
    /\ fn = "get_msg.length"
    /\ IF locals.pid \notin DOMAIN msg_map
       THEN /\ fn' = "get_msg.raised"
            /\ locals' = [exc |-> "KeyError"]
       ELSE /\ fn' = IF locals.length
                            # calcsize(struct_fmt(msg_map[locals.pid], args.data))
                     THEN "get_msg.returned" ELSE "get_msg.build"
            /\ locals' = locals
    /\ UNCHANGED <<framer, transaction, args, retval>>

\* msg = cls(pid, data[header_size:]); return msg
LightBuild ==
    /\ fn = "get_msg.build"
    /\ \E m \in {msg_creator(locals.pid, Tail(args.data))} :
           IF m.raised # ""
           THEN /\ fn' = "get_msg.raised"
                /\ locals' = [exc |-> m.raised]
                /\ retval' = retval
           ELSE /\ fn' = "get_msg.returned"
                /\ locals' = locals
                /\ retval' = Some([pid |-> locals.pid, data |-> m.val])
    /\ UNCHANGED <<framer, transaction, args>>

NextLight == LightHeader \/ LightLength \/ LightBuild

SpecLight == InitLight /\ [][NextLight]_vars

\* ------------------------------------------------ messages: autotest
\* the values random.randint / random.choice draw for a basic type: the
\* least, one inside, the greatest (choice(range(min, max)) never draws
\* the greatest)
RandInts(base, with_max) ==
    {0, IF base = "uint16_t" THEN 258 ELSE 1}
    \cup (IF with_max THEN {ctype_max[base]} ELSE {})

\* the rand method of a generated bitfield class: every bit drawn from
\* 0..mask, or from the members of its enum
RECURSIVE BitField_rand(_, _)
BitField_rand(name, i) ==
    IF i > Len(Bitfields[name]) THEN {<< >>}
    ELSE {<<v>> \o rest :
            v \in (IF BitFieldBits(name)[i].enum # ""
                   THEN EnumValues(BitFieldBits(name)[i].enum)
                   ELSE 0..(Pow2(BitFieldBits(name)[i].width) - 1)),
            rest \in BitField_rand(name, i + 1)}

\* Msg.rand(): the instances it can return, field by field
RECURSIVE rand(_)
\* the values drawn for one element of a field
ElementRand(f) ==
    IF is_bitfield(f) THEN BitField_rand(f.base, 1)
    ELSE IF ~is_ctype(f) THEN rand(Types[f.base])
    ELSE IF f.enum # "" THEN EnumValues(f.enum)
    ELSE RandInts(f.base, ~f.array)

\* the values drawn for a field: an element, array_len elements, or up to
\* MaxElts elements (at least one of a compound type)
FieldRand(f, elements) ==
    IF ~f.array THEN elements
    ELSE IF f.array_len > 0 THEN [1..f.array_len -> elements]
    ELSE UNION {[1..n -> elements] :
                    n \in (IF is_ctype(f) THEN 0 ELSE 1)..MaxElts}

rand(cls) ==
    IF cls = << >> THEN {<< >>}
    ELSE {<<v>> \o rest : v \in FieldRand(Head(cls), ElementRand(Head(cls))),
                          rest \in rand(Tail(cls))}

\* the generated classes with an autotest: the messages and the types
AutotestClasses ==
    {msg_map[id] : id \in DOMAIN msg_map} \cup {Types[t] : t \in DOMAIN Types}

\* Msg.autotest() is called
InitAutotest ==
    /\ Detached
    /\ fn = "autotest"
    /\ args \in {[cls |-> c] : c \in AutotestClasses}
    /\ locals = << >>
    /\ retval = None

\* inst1 = cls.rand()
AutotestRand ==
    /\ fn = "autotest"
    /\ \E inst \in rand(args.cls) : locals' = [inst1 |-> inst]
    /\ fn' = "autotest.pack"
    /\ UNCHANGED <<framer, transaction, args, retval>>

\* inst1.pack()
AutotestPack ==
    /\ fn = "autotest.pack"
    /\ \E p \in {Msg_pack(args.cls, locals.inst1)} :
        IF p.raised # ""
        THEN /\ fn' = "autotest.raised"
             /\ locals' = [inst1 |-> locals.inst1, exc |-> p.raised]
        ELSE /\ fn' = "autotest.unpack"
             /\ locals' = [inst1 |-> locals.inst1, packed |-> p.val]
    /\ UNCHANGED <<framer, transaction, args, retval>>

\* inst1.unpack(inst1.pack())
AutotestUnpack ==
    /\ fn = "autotest.unpack"
    /\ \E u \in {unpack(args.cls, locals.packed)} :
        IF u.raised # ""
        THEN /\ fn' = "autotest.raised"
             /\ locals' = [inst1 |-> locals.inst1, packed |-> locals.packed,
                           exc |-> u.raised]
        ELSE /\ fn' = "autotest.assert"
             /\ locals' = [inst1 |-> locals.inst1, packed |-> locals.packed,
                           unpacked |-> u.val]
    /\ UNCHANGED <<framer, transaction, args, retval>>

\* assert(inst1 == inst1.unpack(inst1.pack()))
AutotestAssert ==
    /\ fn = "autotest.assert"
    /\ IF locals.inst1 = locals.unpacked
       THEN fn' = "autotest.returned" /\ locals' = locals
       ELSE /\ fn' = "autotest.raised"
            /\ locals' = [inst1 |-> locals.inst1, packed |-> locals.packed,
                          exc |-> "AssertionError"]
    /\ UNCHANGED <<framer, transaction, args, retval>>

NextAutotest ==
    AutotestRand \/ AutotestPack \/ AutotestUnpack \/ AutotestAssert

SpecAutotest == InitAutotest /\ [][NextAutotest]_vars

\* ------------------------------------------------- messages: __len__
\* an instance of a generated class is about to be measured and packed
InitLen ==
    /\ Detached
    /\ fn = "len"
    /\ args \in {[cls |-> c] : c \in AutotestClasses}
    /\ locals = << >>
    /\ retval = None

\* m = cls.rand()
LenRand ==
    /\ fn = "len"
    /\ \E inst \in rand(args.cls) : locals' = [m |-> inst]
    /\ fn' = "len.__len__"
    /\ UNCHANGED <<framer, transaction, args, retval>>

\* len(m)
LenLen ==
    /\ fn = "len.__len__"
    /\ locals' = [m |-> locals.m, length |-> Msg_len(args.cls, locals.m)]
    /\ fn' = "len.pack"
    /\ UNCHANGED <<framer, transaction, args, retval>>

\* m.pack()
LenPack ==
    /\ fn = "len.pack"
    /\ \E p \in {Msg_pack(args.cls, locals.m)} :
        IF p.raised # ""
        THEN /\ fn' = "len.raised"
             /\ locals' = [m |-> locals.m, length |-> locals.length,
                           exc |-> p.raised]
        ELSE /\ fn' = "len.returned"
             /\ locals' = [m |-> locals.m, length |-> locals.length,
                           packed |-> p.val]
    /\ UNCHANGED <<framer, transaction, args, retval>>

NextLen == LenRand \/ LenLen \/ LenPack

SpecLen == InitLen /\ [][NextLen]_vars

\* ------------------------------------------------ messages: __init__
\* the assertions of the generated __init__: the value of a field with an
\* enum, or each of its values when it is an array, is in the enum; no
\* other field is looked at
InitAsserts(cls, values) ==
    \A i \in DOMAIN cls :
        cls[i].enum # "" =>
            IF cls[i].array
            THEN \A k \in DOMAIN values[i] : values[i][k] \in EnumValues(cls[i].enum)
            ELSE values[i] \in EnumValues(cls[i].enum)

\* the generated __init__: the assertions, then every field assigned
Msg_init(cls, values) ==
    IF InitAsserts(cls, values)
    THEN [raised |-> "", val |-> values]
    ELSE [raised |-> "AssertionError", val |-> None]

\* the values handed to __init__ for one element of a field: for a basic
\* type its least and greatest value and the integers next to them, for an
\* enum its members and a value between them
ElementInputs(f) ==
    IF is_bitfield(f) THEN BitField_rand(f.base, 1)
    ELSE IF ~is_ctype(f) THEN rand(Types[f.base])
    ELSE IF f.enum # "" THEN EnumValues(f.enum) \cup {1}
    ELSE {-1, 0, ctype_max[f.base], ctype_max[f.base] + 1}

\* the tuples of values handed to __init__
RECURSIVE InitInputs(_)
InitInputs(cls) ==
    IF cls = << >> THEN {<< >>}
    ELSE {<<v>> \o rest :
            v \in (IF ~Head(cls).array THEN ElementInputs(Head(cls))
                   ELSE IF Head(cls).array_len > 0
                   THEN [1..Head(cls).array_len -> {0, ctype_max[Head(cls).base] + 1}]
                   ELSE {<< >>, <<0>>, <<ctype_max[Head(cls).base] + 1>>}),
            rest \in InitInputs(Tail(cls))}

\* Msg(...) is called for a generated class
InitMsg ==
    /\ Detached
    /\ fn = "Msg"
    /\ args \in UNION {{[cls |-> c, values |-> v] : v \in InitInputs(c)} :
                       c \in AutotestClasses}
    /\ locals = << >>
    /\ retval = None

\* the generated __init__ runs: an instance, or the exception of a failed
\* assertion (TypeError instead where the interpreter refuses to look an
\* integer up in an Enum class)
MsgInit ==
    /\ fn = "Msg"
    /\ \E m \in {Msg_init(args.cls, args.values)} :
        IF m.raised # ""
        THEN /\ fn' = "Msg.raised"
             /\ \E e \in {m.raised, "TypeError"} : locals' = [exc |-> e]
             /\ retval' = retval
        ELSE /\ fn' = "Msg.returned"
             /\ locals' = locals
             /\ retval' = Some(m.val)
    /\ UNCHANGED <<framer, transaction, args>>

NextMsg == MsgInit

SpecMsg == InitMsg /\ [][NextMsg]_vars

\* ------------------------------------------------ messages: bitfields
\* the values handed to the constructor for one bit: its domain and the
\* integers next to it on both sides
BitInputs(bit) == -1..Pow2(bit.width)

\* the tuples of values handed to the constructor of a bitfield class
RECURSIVE BitFieldInputs(_, _)
BitFieldInputs(name, i) ==
    IF i > Len(Bitfields[name]) THEN {<< >>}
    ELSE {<<v>> \o rest : v \in BitInputs(BitFieldBits(name)[i]),
                          rest \in BitFieldInputs(name, i + 1)}

\* a bitfield class of the schema is about to be constructed
InitBitfield ==
    /\ Detached
    /\ fn = "BitField"
    /\ args \in UNION {{[name |-> n, values |-> v] :
                            v \in BitFieldInputs(n, 1)} :
                       n \in DOMAIN Bitfields}
    /\ locals = << >>
    /\ retval = None

\* bits = XBitField(...)
BitFieldConstruct ==
    /\ fn = "BitField"
    /\ \E b \in {BitField(args.name, args.values)} :
        IF b.raised # ""
        THEN fn' = "BitField.raised" /\ locals' = [exc |-> b.raised]
        ELSE fn' = "BitField.pack" /\ locals' = [bits |-> b.val]
    /\ UNCHANGED <<framer, transaction, args, retval>>

\* word = bits.pack()
BitFieldPack ==
    /\ fn = "BitField.pack"
    /\ locals' = [bits |-> locals.bits,
                  word |-> BitField_pack(args.name, locals.bits)]
    /\ fn' = "BitField.unpack"
    /\ UNCHANGED <<framer, transaction, args, retval>>

\* XBitField.unpack(word)
BitFieldUnpack ==
    /\ fn = "BitField.unpack"
    /\ \E u \in {BitField_unpack(args.name, locals.word)} :
        IF u.raised # ""
        THEN /\ fn' = "BitField.raised"
             /\ locals' = [bits |-> locals.bits, word |-> locals.word,
                           exc |-> u.raised]
             /\ retval' = retval
        ELSE /\ fn' = "BitField.returned"
             /\ locals' = locals
             /\ retval' = Some(u.val)
    /\ UNCHANGED <<framer, transaction, args>>

NextBitfield == BitFieldConstruct \/ BitFieldPack \/ BitFieldUnpack

SpecBitfield == InitBitfield /\ [][NextBitfield]_vars

\* -------------------------------------------------- genmsg.py: DefsGen
\* len(names) != len(set(names))
HasDuplicates(list) == Len(list) # Cardinality({list[i] : i \in DOMAIN list})

\* EnumElt.check_enum: the entry names, then the entry values
check_enum(entries) ==
    IF HasDuplicates([i \in DOMAIN entries |-> entries[i].name])
    THEN "ValueError"
    ELSE IF HasDuplicates([i \in DOMAIN entries |-> entries[i].value])
    THEN "ValueError"
    ELSE ""

\* EnumElt(enum): the entries are read, then checked
EnumElt(enum) ==
    IF check_enum(enum.entries) # ""
    THEN [raised |-> check_enum(enum.entries), val |-> None]
    ELSE [raised |-> "", val |-> enum]

\* StructField.array_re, on the part of a type that follows its first
\* word: the suffixes it matches, each with the array_len __init__ derives
\* from it (the number when the brackets hold a decimal, -1 otherwise)
array_re == ("[]" :> -1) @@ ("[0]" :> 0) @@ ("[2]" :> 2)

\* StructField(name, type, desc) and attach_enum: a type array_re does not
\* match is no array and is its own base type, brackets included
StructField_init(f) ==
    IF f.suffix \in DOMAIN array_re
    THEN StructField(f.name, f.base, TRUE, array_re[f.suffix], f.enum)
    ELSE StructField(f.name, f.base \o f.suffix, FALSE, 0, f.enum)

\* MessageElt.check_message: the field names
check_message(fields) ==
    IF HasDuplicates([i \in DOMAIN fields |-> fields[i].name])
    THEN "ValueError"
    ELSE ""

\* the MessageElt read from a definition
MessageRead(message) ==
    [name |-> message.name, id |-> message.id,
     fields |-> [i \in DOMAIN message.fields |->
                    StructField_init(message.fields[i])]]

\* MessageElt(message): the fields are read, then checked
MessageElt(message) ==
    IF check_message(MessageRead(message).fields) # ""
    THEN [raised |-> check_message(MessageRead(message).fields), val |-> None]
    ELSE [raised |-> "", val |-> MessageRead(message)]

\* DefsGen.get_enum: the first enum of that name, None without one
get_enum(enums, name) ==
    IF \E i \in DOMAIN enums : enums[i].name = name
    THEN Some(enums[CHOOSE i \in DOMAIN enums :
                        /\ enums[i].name = name
                        /\ \A j \in 1..(i - 1) : enums[j].name # name])
    ELSE None

\* Bits.__eq__: name, position, desc and width (the prefix is the name of
\* the bitfield both bits are in)
Bits_eq(self, other) ==
    /\ self.name = other.name
    /\ self.position = other.position
    /\ self.desc = other.desc
    /\ self.width = other.width

\* Bits.bit_conflicts: a bit does not conflict with a bit equal to it
bit_conflicts(self, other) ==
    IF Bits_eq(self, other) THEN FALSE
    ELSE ~(\/ upper_bit_pos(self) < other.position
           \/ self.position > upper_bit_pos(other))

\* the Bits made of one entry of "bits": the width of an entry with an enum
\* is the width of the enum, which must be defined
BitOf(b, enums) ==
    IF b.enum = "" THEN [raised |-> "", val |-> b]
    ELSE IF get_enum(enums, b.enum) = None
    THEN [raised |-> "AssertionError", val |-> None]
    ELSE [raised |-> "",
          val |-> [b EXCEPT !.width =
                    get_enum_bit_width(get_enum(enums, b.enum)[1].entries)]]

\* one turn of the loop of BitField.__init__ for the bit made, and the loop
\* from entry i on: self.bits so far is bits
RECURSIVE BitsFrom(_, _, _, _)
BitNext(entries, i, bits, enums, bit) ==
    IF bit.raised # "" THEN bit
    ELSE IF \E k \in DOMAIN bits : bit_conflicts(bit.val, bits[k])
    THEN [raised |-> "AssertionError", val |-> None]
    ELSE BitsFrom(entries, i + 1, Append(bits, bit.val), enums)

BitsFrom(entries, i, bits, enums) ==
    IF i > Len(entries) THEN [raised |-> "", val |-> bits]
    ELSE BitNext(entries, i, bits, enums, BitOf(entries[i], enums))

\* the BitField made of the bits read
BitFieldOf(bitfield, bits) ==
    IF bits.raised # "" THEN bits
    ELSE [raised |-> "", val |-> [name |-> bitfield.name, bits |-> bits.val]]

\* BitField(bitfield), the class of genmsg.py
BitField_init(bitfield, enums) ==
    BitFieldOf(bitfield, BitsFrom(bitfield.bits, 1, << >>, enums))

\* the entries an enum definition is written with
EntryDefs ==
    {[name |-> "red", value |-> 0], [name |-> "blue", value |-> 2],
     [name |-> "blue", value |-> 0]}

\* the enum definitions of the schemas to load
EnumDefs ==
    {[name |-> n, entries |-> e] :
        n \in {"color", "mode"}, e \in SeqsUpTo(EntryDefs, MaxEntries)}

\* a field definition: the type is base followed by suffix, no enum is ""
FieldDef(name, base, suffix, enum) ==
    [name |-> name, base |-> base, suffix |-> suffix, enum |-> enum]

\* the fields a message definition is written with
FieldDefs ==
    {FieldDef("n", "uint8_t", "", ""), FieldDef("arr", "uint8_t", "[]", ""),
     FieldDef("tail", "uint16_t", "[]", "")}

\* the type definitions (no id) and message definitions of the schemas
TypeDefs ==
    {[name |-> n, id |-> None, fields |-> f] :
        n \in {"a", "b"}, f \in SeqsUpTo(FieldDefs, MaxFields)}
MessageDefs ==
    {[name |-> n, id |-> Some(i), fields |-> f] :
        n \in {"a", "b"}, i \in {ReqPid, NotifPid},
        f \in SeqsUpTo(FieldDefs, MaxFields)}

\* the lists with at most two elements of a set
UpToTwo(S) == {<< >>} \cup {<<x>> : x \in S} \cup {<<x, y>> : x \in S, y \in S}

\* the enums of the schemas with bitfields or references: color, and an
\* enum whose only value is 0
DefinedEnums ==
    << [name |-> "color", entries |-> Enums["color"]],
       [name |-> "zero", entries |-> << [name |-> "off", value |-> 0] >>] >>

\* an entry of "bits"; width is 1 when the entry has none
BitDef(name, position, width, enum, desc) ==
    [name |-> name, position |-> position, width |-> width, enum |-> enum,
     desc |-> desc]

\* the entries a bitfield definition is written with
BitDefs ==
    {BitDef("a", 0, 2, "", "d"), BitDef("a", 0, 2, "", "e"),
     BitDef("b", 1, 1, "", "d"), BitDef("c", 2, 1, "", "d"),
     BitDef("top", 31, 1, "", "d"), BitDef("hi", 32, 1, "", "d"),
     BitDef("w", 8, 0, "", "d"), BitDef("col", 4, 1, "color", "d"),
     BitDef("z", 4, 3, "zero", "d"), BitDef("u", 6, 1, "nosuch", "d")}

\* the bitfield definitions
BitfieldDefs == {[name |-> "bf", bits |-> b] : b \in UpToTwo(BitDefs)}

\* the fields of the schemas with references: of a basic type, of the
\* types a and b, of the bitfield bf, of no type of the schema, with enum
\* color or an enum of no schema, and with other suffixes
RefFieldDefs ==
    {FieldDef("n", "uint8_t", "", ""), FieldDef("p", "b", "", ""),
     FieldDef("q", "a", "", ""), FieldDef("f", "bf", "", ""),
     FieldDef("g", "nosuch", "", ""), FieldDef("c", "uint8_t", "", "color"),
     FieldDef("e", "uint8_t", "", "nosuch"), FieldDef("k", "uint8_t", "[2]", ""),
     FieldDef("z", "uint8_t", "[0]", ""), FieldDef("x", "uint8_t", "[x]", "")}

\* the type b and a type a with a field of type b
TypeB == [name |-> "b", id |-> None, fields |-> <<FieldDef("n", "uint8_t", "", "")>>]
TypeA == [name |-> "a", id |-> None, fields |-> <<FieldDef("p", "b", "", "")>>]

\* the schema handed to DefsGen: an absent key is None for "messages"
\* (process_messages_defs returns before its checks) and the empty list for
\* the others
Defs(enums, types, bitfields, messages) ==
    [enums |-> enums, types |-> types, bitfields |-> bitfields,
     messages |-> messages]

\* the schemas handed to DefsGen: of enums, of types, of messages, of a
\* type and a message, of a bitfield that a message uses or not, and of a
\* message with references
SchemaDefs ==
    {Defs(e, << >>, << >>, None) : e \in UpToTwo(EnumDefs)}
    \cup {Defs(<< >>, t, << >>, None) : t \in UpToTwo(TypeDefs)}
    \cup {Defs(<< >>, << >>, << >>, Some(m)) : m \in UpToTwo(MessageDefs)}
    \cup {Defs(<< >>, <<t>>, << >>, Some(<<m>>)) :
            t \in TypeDefs, m \in MessageDefs}
    \cup {Defs(DefinedEnums, << >>, <<b>>, m) :
            b \in BitfieldDefs,
            m \in {None, Some(<<[name |-> "m", id |-> Some(ReqPid),
                                 fields |-> <<FieldDef("f", "bf", "", "")>>]>>)}}
    \cup {Defs(DefinedEnums, t, <<[name |-> "bf", bits |-> << >>]>>,
               Some(<<[name |-> "m", id |-> Some(ReqPid), fields |-> f]>>)) :
            t \in {<< >>, <<TypeB>>, <<TypeA, TypeB>>, <<TypeB, TypeA>>},
            f \in UpToTwo(RefFieldDefs)}

\* DefsGen(defs, ...): the lists are empty, process_enums_defs is next
InitDefsGen ==
    /\ Detached
    /\ fn = "process_enums_defs"
    /\ args \in {[defs |-> d] : d \in SchemaDefs}
    /\ locals = [enums |-> << >>, messages |-> << >>, bitfields |-> << >>]
    /\ retval = None

\* process_enums_defs: the next enum is built and appended; after the last
\* one process_types_defs is next
process_enums_defs ==
    /\ fn = "process_enums_defs"
    /\ IF Len(locals.enums) < Len(args.defs.enums)
       THEN \E e \in {EnumElt(args.defs.enums[Len(locals.enums) + 1])} :
            IF e.raised # ""
            THEN /\ fn' = "DefsGen.raised"
                 /\ locals' = locals @@ [exc |-> e.raised]
            ELSE /\ fn' = fn
                 /\ locals' = [locals EXCEPT !.enums = Append(@, e.val)]
       ELSE fn' = "process_types_defs" /\ locals' = locals
    /\ UNCHANGED <<framer, transaction, args, retval>>

\* process_types_defs: the next type is built and appended; after the last
\* one process_bitfields_defs is next
process_types_defs ==
    /\ fn = "process_types_defs"
    /\ IF Len(locals.messages) < Len(args.defs.types)
       THEN \E t \in {MessageElt(args.defs.types[Len(locals.messages) + 1])} :
            IF t.raised # ""
            THEN /\ fn' = "DefsGen.raised"
                 /\ locals' = locals @@ [exc |-> t.raised]
            ELSE /\ fn' = fn
                 /\ locals' = [locals EXCEPT !.messages = Append(@, t.val)]
       ELSE fn' = "process_bitfields_defs" /\ locals' = locals
    /\ UNCHANGED <<framer, transaction, args, retval>>

\* process_bitfields_defs: the next bitfield is built and appended; after
\* the last one process_messages_defs is next
process_bitfields_defs ==
    /\ fn = "process_bitfields_defs"
    /\ IF Len(locals.bitfields) < Len(args.defs.bitfields)
       THEN \E bf \in {BitField_init(
                        args.defs.bitfields[Len(locals.bitfields) + 1],
                        locals.enums)} :
            IF bf.raised # ""
            THEN /\ fn' = "DefsGen.raised"
                 /\ locals' = locals @@ [exc |-> bf.raised]
            ELSE /\ fn' = fn
                 /\ locals' = [locals EXCEPT !.bitfields = Append(@, bf.val)]
       ELSE fn' = "process_messages_defs" /\ locals' = locals
    /\ UNCHANGED <<framer, transaction, args, retval>>

\* the messages of defs, none when the key is absent
MessagesOf(defs) == IF defs.messages = None THEN << >> ELSE defs.messages[1]

\* the checks that end process_messages_defs: names, then ids
MessagesChecked(messages) ==
    IF HasDuplicates([i \in DOMAIN messages |-> messages[i].name])
    THEN "AssertionError"
    ELSE IF HasDuplicates(SelectSeq([i \in DOMAIN messages |-> messages[i].id],
                                    LAMBDA id : id # None))
    THEN "AssertionError"
    ELSE ""

\* process_messages_defs: nothing without the key; the next message is
\* built, must have an id, and is appended; after the last one the names
\* and the ids are checked
process_messages_defs ==
    /\ fn = "process_messages_defs"
    /\ IF args.defs.messages = None
       THEN fn' = "DefsGen.returned" /\ locals' = locals
       ELSE IF Len(locals.messages) - Len(args.defs.types)
                < Len(MessagesOf(args.defs))
       THEN \E m \in {MessageElt(MessagesOf(args.defs)[
                        Len(locals.messages) - Len(args.defs.types) + 1])} :
            IF m.raised # ""
            THEN /\ fn' = "DefsGen.raised"
                 /\ locals' = locals @@ [exc |-> m.raised]
            ELSE IF m.val.id = None
            THEN /\ fn' = "DefsGen.raised"
                 /\ locals' = locals @@ [exc |-> "AssertionError"]
            ELSE /\ fn' = fn
                 /\ locals' = [locals EXCEPT !.messages = Append(@, m.val)]
       ELSE \E c \in {MessagesChecked(locals.messages)} :
            IF c # ""
            THEN fn' = "DefsGen.raised" /\ locals' = locals @@ [exc |-> c]
            ELSE fn' = "DefsGen.returned" /\ locals' = locals
    /\ UNCHANGED <<framer, transaction, args, retval>>

NextDefsGen ==
    \/ process_enums_defs
    \/ process_types_defs
    \/ process_bitfields_defs
    \/ process_messages_defs

SpecDefsGen == InitDefsGen /\ [][NextDefsGen]_vars

\* -------------------------------------------------- genmsg.py: codegen
\* text is a sequence of lines, a line the number of its leading spaces
\* and what follows them; the empty line has no text
Line(ind, text) == [ind |-> ind, text |-> text]
EmptyLine == Line(0, "")

\* CodeGen.flush_code
flush_code(self) == [self EXCEPT !.current_code = << >>, !.current_level = 0]

\* CodeGen.indent(lvl): the level is changed, then asserted not negative
indent(self, lvl) ==
    [raised |-> IF self.current_level + lvl >= 0 THEN "" ELSE "AssertionError",
     val |-> [self EXCEPT !.current_level = @ + lvl]]

\* CodeGen.code(s): a line indented by the current level
code(self, s) ==
    [self EXCEPT !.current_code =
        Append(@, Line(self.current_level * self.indent_size, s))]

\* CodeGen.codeblock(blk): every line that is not empty indented by the
\* current level
codeblock(self, blk) ==
    [self EXCEPT !.current_code =
        @ \o [i \in DOMAIN blk |->
                IF blk[i].text = "" THEN blk[i]
                ELSE Line(blk[i].ind + self.current_level * self.indent_size,
                          blk[i].text)]]

\* count_last_empty_lines
RECURSIVE count_last_empty_lines(_)
count_last_empty_lines(lines) ==
    IF lines = << >> \/ lines[Len(lines)].text # "" THEN 0
    ELSE 1 + count_last_empty_lines(SubSeq(lines, 1, Len(lines) - 1))

\* CodeGen.finish_statement: the statement with n empty lines at its end
finish_statement(statement, n) ==
    SubSeq(statement, 1, Len(statement) - count_last_empty_lines(statement))
        \o [i \in 1..n |-> EmptyLine]

\* shift_indent_level: every line that is not empty moved to the level
shift_indent_level(lines, ind, level) ==
    [i \in DOMAIN lines |->
        IF lines[i].text = "" THEN lines[i]
        ELSE Line(lines[i].ind + level * ind, lines[i].text)]

\* wrap_func before func runs: buffer and level saved, then flushed, the
\* size of an indentation set
Enter(self, ind) ==
    [flush_code(self) EXCEPT !.indent_size = ind,
        !.saved = Append(@, [save_code |-> self.current_code,
                             save_lvl |-> self.current_level])]

\* variant: wrap_func does not put the saved buffer back
Leave_NoRestore(self) ==
    [self EXCEPT !.saved = SubSeq(@, 1, Len(@) - 1)]

\* wrap_func after func has run: buffer and level restored
Leave(self) ==
    [self EXCEPT !.current_code = self.saved[Len(self.saved)].save_code,
                 !.current_level = self.saved[Len(self.saved)].save_lvl,
                 !.saved = SubSeq(@, 1, Len(@) - 1)]

\* the text wrap_func returns for what func returned
Out(text, n, ind, level) ==
    shift_indent_level(finish_statement(text, n), ind, level)

\* the texts a generating method writes a line of
Tokens == {"pass"}

\* history of a call under way: buffer and level when it began, its
\* argument level, how far it has indented and the lines it has written,
\* both counted from the call on
Began(self, level) ==
    [code |-> self.current_code, lvl |-> self.current_level,
     level |-> level, rel |-> 0, lines |-> << >>]

\* the lines in the buffers of the calls under way, and the indentations
\* these calls have made and not undone
RECURSIVE LinesHeld(_, _)
LinesHeld(self, k) ==
    IF k = 0 THEN Len(self.current_code)
    ELSE Len(self.saved[k].save_code) + LinesHeld(self, k - 1)

RECURSIVE IndentsHeld(_, _)
IndentsHeld(calls, k) ==
    IF k = 0 THEN 0 ELSE calls[k].rel + IndentsHeld(calls, k - 1)

\* a CodeGen object after __init__, no generating method called; the
\* indent every call of the run is made with
InitCodegen ==
    /\ Detached
    /\ fn = "codegen"
    /\ args \in {[indent |-> i] : i \in {2, 4}}
    /\ locals = [self |-> [current_code |-> << >>, current_level |-> 0,
                           indent_size |-> 4, saved |-> << >>],
                 calls |-> << >>, out |-> None, n |-> 0]
    /\ retval = None

\* a generating method is called, from outside or from the method that
\* is running
CodegenCall(level) ==
    /\ fn = "codegen"
    /\ Len(locals.calls) < MaxDepth
    /\ locals' = [self |-> Enter(locals.self, args.indent),
                  calls |-> Append(locals.calls, Began(locals.self, level)),
                  out |-> None, n |-> 0]
    /\ retval' = None
    /\ UNCHANGED <<framer, transaction, fn, args>>

\* the running method calls self.code(s); the text a call returned is
\* used by the statement that made the call or not at all
CodegenCode(s) ==
    /\ fn = "codegen"
    /\ locals.calls # << >>
    /\ LinesHeld(locals.self, Len(locals.self.saved)) < MaxLines
    /\ locals' = [locals EXCEPT
            !.self = code(@, s),
            !.out = None, !.n = 0,
            !.calls[Len(locals.calls)].lines =
                Append(@, Line(locals.calls[Len(locals.calls)].rel * args.indent, s))]
    /\ retval' = None
    /\ UNCHANGED <<framer, transaction, fn, args>>

\* the running method calls self.indent(), or self.deindent() after it has
\* indented (every deindent of genmsg.py follows an indent of its method)
CodegenIndent(lvl) ==
    /\ fn = "codegen"
    /\ locals.calls # << >>
    /\ locals.calls[Len(locals.calls)].rel + lvl >= 0
    /\ IndentsHeld(locals.calls, Len(locals.calls)) + lvl <= MaxLevel
    /\ \E r \in {indent(locals.self, lvl)} :
        /\ fn' = IF r.raised # "" THEN "codegen.raised" ELSE fn
        /\ locals' = [locals EXCEPT
                !.self = r.val,
                !.out = None, !.n = 0,
                !.calls[Len(locals.calls)].rel = @ + lvl]
    /\ retval' = None
    /\ UNCHANGED <<framer, transaction, args>>

\* the running method calls self.codeblock(out) with the text the method
\* it called has returned
CodegenCodeblock ==
    /\ fn = "codegen"
    /\ locals.calls # << >>
    /\ locals.out # None
    /\ LinesHeld(locals.self, Len(locals.self.saved)) + Len(locals.out[1])
            <= MaxLines
    /\ locals' = [locals EXCEPT
            !.self = codeblock(@, locals.out[1]),
            !.out = None, !.n = 0,
            !.calls[Len(locals.calls)].lines =
                @ \o shift_indent_level(locals.out[1], args.indent,
                                        locals.calls[Len(locals.calls)].rel)]
    /\ retval' = None
    /\ UNCHANGED <<framer, transaction, fn, args>>

\* the running method, decorated with @codegen(n), returns
\* self.current_code: wrap_func finishes and shifts the text, restores
\* buffer and level and returns
CodegenReturn(n) ==
    /\ fn = "codegen"
    /\ locals.calls # << >>
    /\ \E out \in {Out(locals.self.current_code, n, args.indent,
                       locals.calls[Len(locals.calls)].level)} :
        /\ locals' = [self |-> Leave(locals.self),
                      calls |-> SubSeq(locals.calls, 1, Len(locals.calls) - 1),
                      out |-> Some(out), n |-> n]
        /\ retval' = Some(out)
    /\ UNCHANGED <<framer, transaction, fn, args>>

NextCodegen ==
    \/ \E level \in {0, 1} : CodegenCall(level)
    \/ \E s \in Tokens : CodegenCode(s)
    \/ \E lvl \in {1, -1} : CodegenIndent(lvl)
    \/ CodegenCodeblock
    \/ \E n \in 0..2 : CodegenReturn(n)

SpecCodegen == InitCodegen /\ [][NextCodegen]_vars

\* ------------------------------------------------------- history helpers
NoneTimes(n) == [i \in 1..n |-> None]

\* the non-None values decode() returned so far, in order
RECURSIVE Returned(_)
Returned(rs) ==
    IF rs = << >> THEN << >>
    ELSE (IF Head(rs) = None THEN << >> ELSE <<Head(rs)[1]>>) \o Returned(Tail(rs))

\* every buffer with its encoding, grouped by the encoding's length
Encodings ==
    [n \in 0..MaxFeed |->
        {e \in {[buf |-> b, enc |-> encode(b)] : b \in Payloads} : Len(e.enc) = n}]

\* every list of frames with its stream, grouped by the stream's length
Streams ==
    [n \in 0..MaxFeed |->
        {e \in {[bufs |-> bs, enc |-> StreamOf(bs)] : bs \in FrameLists} :
            Len(e.enc) = n}]

\* when fed is exactly the encoding e.enc of e.buf, decode returned None on
\* every byte but the last and e.buf on the last
RoundTrip(e) ==
    fed = e.enc => rets = NoneTimes(Len(fed) - 1) \o <<Some(e.buf)>>

\* ================================================================ claims

\* C1 (as stated): for every buffer b, the empty one included, feeding
\* encode(b) to a fresh framer returns None on every byte except the last
\* and b on the last.
C1_RoundTripEveryBuffer == \A e \in Encodings[Len(fed)] : RoundTrip(e)

\* C1 (amended): for every NON-EMPTY buffer b (END and ESC bytes included),
\* feeding encode(b) byte by byte to a fresh framer returns None on every
\* byte except the last and exactly b on the last.
C1_RoundTripNonEmpty ==
    \A e \in Encodings[Len(fed)] : e.buf # << >> => RoundTrip(e)

C1_Witness ==
    /\ fed = encode(<<SLIP_END, SLIP_ESC>>)
    /\ rets[Len(rets)] = Some(<<SLIP_END, SLIP_ESC>>)
    /\ state = WAIT_END

\* C2: whatever was fed before, once an END byte has been fed, a well-formed
\* frame encode(b) with non-empty b fed next is returned by decode as b (on
\* the frame's last byte).
C2_ResyncAfterEnd ==
    \A k \in 1..Len(fed) :
        fed[k] = SLIP_END =>
            \A b \in NonEmptyPayloads :
                SubSeq(fed, k + 1, Len(fed)) = encode(b)
                    => rets[Len(fed)] = Some(b)

\* C3: feeding encode(b1) ++ ... ++ encode(bn), non-empty payloads, to a
\* fresh framer returns exactly b1, ..., bn in that order and nothing else.
C3_FramesInOrder ==
    \A e \in Streams[Len(fed)] : fed = e.enc => Returned(rets) = e.bufs

C3_Witness ==
    /\ fed = StreamOf(<< <<DataByte>>, <<SLIP_ESC>> >>)
    /\ Returned(rets) = << <<DataByte>>, <<SLIP_ESC>> >>

\* the frames the framer completed so far, in order
Frames == Returned(rets)

\* the reply pid of the request, bit 7 set
ReplyPidOf(req) == (req.pid % 128) + 128

\* element e of l is a message carrying the reply pid
CarriesReplyPid(e) == e # None /\ e[1].pid = ReplyPidOf(request)

\* C4: slip_transaction writes the SLIP-encoded request once, before reading
\* any byte; it returns exactly at the first decoded frame whose pid is
\* request.pid | 0x80: that frame is the last element of the returned list,
\* no earlier element has that pid, and while it is still reading no element
\* of the list has that pid.
C4_ReturnsAtFirstReply ==
    /\ pc = "write" => (sink = << >> /\ fed = << >>)
    /\ pc # "write" => sink = <<encode(<<request.pid>> \o request.data)>>
    /\ pc = "read" => \A i \in 1..Len(l) : ~CarriesReplyPid(l[i])
    /\ pc = "returned" =>
        /\ l # << >>
        /\ CarriesReplyPid(l[Len(l)])
        /\ \A i \in 1..(Len(l) - 1) : ~CarriesReplyPid(l[i])
        /\ rets[Len(rets)] # None
        /\ rets[Len(rets)][1][1] = ReplyPidOf(request)
        /\ \A i \in 1..(Len(Frames) - 1) : Frames[i][1] # ReplyPidOf(request)

C4_Witness ==
    /\ pc = "returned"
    /\ Len(l) = 2
    /\ l[1][1].pid = NotifPid
    /\ sink = <<encode(<<ReqPid, SLIP_END>>)>>

\* C5: the list slip_transaction returns holds every frame the framer
\* completed since the request was sent, each exactly once and in arrival
\* order: its i-th element is the message of the i-th completed frame.
C5_ListIsEveryFrameInOrder ==
    pc = "returned" =>
        /\ Len(l) = Len(Frames)
        /\ \A i \in 1..Len(l) :
            /\ l[i] # None
            /\ l[i][1].pid = Frames[i][1]
            /\ l[i][1].data = Tail(Frames[i])

C5_Witness ==
    /\ pc = "returned"
    /\ Len(l) = 2
    /\ Frames = << <<NotifPid, RespPid>>, <<RespPid>> >>

\* C6: the transaction terminates (with a Timeout error when no reply
\* arrived by the deadline): it does not stay in its read loop forever.
C6_TransactionTerminates == <>(pc \in {"returned", "raised", "timeout"})

\* a frame with a registered pid whose length get_msg rejects
FailsValidation(f) ==
    /\ f[1] \in DOMAIN Schema
    /\ Len(f) - 1 # Len(Schema[f[1]])

\* C7: a received frame that fails payload validation is dropped: the list
\* gets no element for it and the transaction is not aborted by an
\* exception, it keeps reading.
C7_InvalidFrameDropped ==
    \A i \in 1..Len(Frames) :
        FailsValidation(Frames[i]) =>
            /\ pc # "raised"
            /\ \A j \in 1..Len(l) : l[j] # None

\* the byte passed to the decode() call of this step and what it returned
FedByte == fed'[Len(fed')]
LastRet == rets'[Len(rets')]

\* C8: in STORE_INCOMING, ESC goes to ESCAPING with the buffer unchanged;
\* END with a non-empty buffer returns the buffer, clears it and goes to
\* WAIT_END; END with an empty buffer returns nothing and stays; any other
\* byte is appended and the framer stays in STORE_INCOMING.
C8_StoreIncoming ==
    [][(state = STORE_INCOMING /\ fed' # fed) =>
        /\ FedByte = SLIP_ESC =>
            state' = ESCAPING /\ rx' = rx /\ LastRet = None
        /\ (FedByte = SLIP_END /\ rx # << >>) =>
            LastRet = Some(rx) /\ rx' = << >> /\ state' = WAIT_END
        /\ (FedByte = SLIP_END /\ rx = << >>) =>
            LastRet = None /\ rx' = << >> /\ state' = STORE_INCOMING
        /\ FedByte \notin {SLIP_ESC, SLIP_END} =>
            rx' = Append(rx, FedByte) /\ state' = STORE_INCOMING
                /\ LastRet = None
      ]_vars

C8_Witness ==
    /\ fed = <<SLIP_END, SLIP_END, DataByte, SLIP_END>>
    /\ rets = NoneTimes(3) \o <<Some(<<DataByte>>)>>
    /\ state = WAIT_END
    /\ rx = << >>

\* C9: in ESCAPING every byte b appends exactly one byte (ESC for ESC_ESC,
\* END for ESC_END, b itself otherwise, END and ESC included), returns
\* nothing and goes to STORE_INCOMING.
C9_Escaping ==
    [][(state = ESCAPING /\ fed' # fed) =>
        /\ rx' = Append(rx, IF FedByte = SLIP_ESC_ESC THEN SLIP_ESC
                            ELSE IF FedByte = SLIP_ESC_END THEN SLIP_END
                            ELSE FedByte)
        /\ LastRet = None
        /\ state' = STORE_INCOMING
      ]_vars

C9_Witness ==
    /\ fed = <<SLIP_END, SLIP_ESC, SLIP_ESC_ESC, SLIP_ESC, SLIP_END>>
    /\ rx = <<SLIP_ESC, SLIP_END>>
    /\ state = STORE_INCOMING

\* C10: a new framer is in WAIT_END with an empty buffer; in WAIT_END a byte
\* other than END changes neither state nor buffer and returns nothing, and
\* END moves to STORE_INCOMING returning nothing.
C10_WaitEnd ==
    /\ (state = WAIT_END /\ rx = << >>)
    /\ [][(state = WAIT_END /\ fed' # fed) =>
            /\ LastRet = None
            /\ rx' = rx
            /\ state' = (IF FedByte = SLIP_END THEN STORE_INCOMING ELSE WAIT_END)
         ]_vars

C10_Witness ==
    /\ fed = <<DataByte, SLIP_ESC, SLIP_END>>
    /\ rets = NoneTimes(3)
    /\ state = STORE_INCOMING
    /\ rx = << >>
\* the bytes the claim gives for one input byte
ClaimedEscape(b) ==
    CASE b = SLIP_END -> <<SLIP_ESC, SLIP_ESC_END>>
      [] b = SLIP_ESC -> <<SLIP_ESC, SLIP_ESC_ESC>>
      [] OTHER -> <<b>>

\* where the bytes for input byte k start in the output: after the leading
\* END and two bytes for every END or ESC before k, one for any other
OutputPos(b, k) ==
    1 + k + Cardinality({j \in 1..(k - 1) : b[j] \in {SLIP_END, SLIP_ESC}})

\* C11: encode(buf) is END, then for each input byte in order ESC,ESC_END
\* for END, ESC,ESC_ESC for ESC and the byte itself otherwise, then END; its
\* length is len(buf) + 2 + the number of END or ESC bytes of buf.
C11_EncodeLayout ==
    fn = "encode.returned" =>
        LET b == args.buf
            out == retval[1]
            n == Len(b) + 2 + Cardinality({j \in 1..Len(b) : b[j] \in {SLIP_END, SLIP_ESC}})
        IN  /\ Len(out) = n
            /\ out[1] = SLIP_END
            /\ out[n] = SLIP_END
            /\ \A k \in 1..Len(b) :
                SubSeq(out, OutputPos(b, k),
                       OutputPos(b, k) + Len(ClaimedEscape(b[k])) - 1)
                    = ClaimedEscape(b[k])

C11_Witness ==
    /\ fn = "encode.returned"
    /\ args.buf = <<SLIP_ESC, SLIP_END>>
    /\ retval = Some(<<SLIP_END, SLIP_ESC, SLIP_ESC_ESC, SLIP_ESC, SLIP_ESC_END, SLIP_END>>)
\* C14: crc16_ccitt applies to each data byte the step x = byte XOR msb;
\* x ^= x >> 4; msb = (lsb XOR (x >> 3) XOR (x << 4)) & 0xFF;
\* lsb = (x XOR (x << 5)) & 0xFF, and from 0xFFFF it returns 0xFFFF for the
\* empty input and 0x29B1 for the ASCII bytes of "123456789".
C14_CrcStepAndCheckValues ==
    /\ [][(fn = "crc16_ccitt.for" /\ locals' # locals) =>
            LET byte == args.data[locals.i]
                x1 == Xor(byte, locals.msb)
                x2 == Xor(x1, x1 \div 16)
            IN  /\ locals'.msb = Xor(Xor(locals.lsb, x2 \div 8), x2 * 16) % 256
                /\ locals'.lsb = Xor(x2, x2 * 32) % 256
                /\ locals'.i = locals.i + 1
         ]_vars
    /\ [](fn = "crc16_ccitt.returned" /\ args.crc = 65535 =>
            /\ args.data = << >> => retval = Some(65535)
            /\ args.data = <<49, 50, 51, 52, 53, 54, 55, 56, 57>>
                    => retval = Some(10673))

C14_Witness ==
    /\ fn = "crc16_ccitt.returned"
    /\ args = [crc |-> 65535, data |-> CrcCheckString]
    /\ retval = Some(10673)

\* get_msg of slip.py is done with the body: it returned or raised
HeavyDone == fn \in {"slip.get_msg.returned", "slip.get_msg.raised"}
\* get_msg of slip.py returned a payload
HeavyAccepted == fn = "slip.get_msg.returned" /\ retval # None
\* get_msg of slip.py returned None
HeavyRejected == fn = "slip.get_msg.returned" /\ retval = None

PassesLengthCheck ==
    /\ Len(args.data) >= header_size
    /\ args.data[3] = Len(args.data) - header_size - crc_size

\* the trailing 16 bits, low byte first, are the CRC of pid|seq|len|data
CrcMatches ==
    LET n == Len(args.data)
    IN  args.data[n - 1] + 256 * args.data[n]
            = crc16_ccitt(65535, SubSeq(args.data, 1, n - crc_size))

\* C13: for a frame body that passes the length check, get_msg of slip.py
\* returns a payload if and only if the trailing little-endian CRC equals
\* crc16_ccitt(0xFFFF, pid|seq|len|data); on a mismatch it returns no
\* message, on a match the payload has the frame's pid, seq and data.
C13_CrcDecides ==
    (HeavyDone /\ PassesLengthCheck) =>
        /\ HeavyAccepted <=> CrcMatches
        /\ ~CrcMatches => HeavyRejected
        /\ CrcMatches =>
            /\ retval # None
            /\ retval[1].pid = args.data[1]
            /\ retval[1].seq = args.data[2]
            /\ pack([pid |-> retval[1].pid, data |-> retval[1].data])
                = <<args.data[1]>>
                    \o SubSeq(args.data, header_size + 1,
                              Len(args.data) - crc_size)

\* get_msg of slip_light.py is done with the body: it returned or raised
LightDone == fn \in {"get_msg.returned", "get_msg.raised"}
\* get_msg of slip_light.py returned a payload
LightAccepted == fn = "get_msg.returned" /\ retval # None
\* get_msg of slip_light.py returned None
LightRejected == fn = "get_msg.returned" /\ retval = None

\* n bytes are an encoded size of the message: the size pack() gives it,
\* with some whole number of elements in a trailing variable-length array
LayoutFits(cls, n) ==
    \E k \in 0..n : calcsize_std(struct_fmt(cls, [i \in 1..k |-> 0])) = n

\* C15: get_msg of slip_light.py accepts a frame body {pid, data} exactly
\* when len(data) is an encoded size of the message registered for pid
\* (fixed prefix plus a whole number of elements for a trailing
\* variable-length array), and returns no message otherwise.
C15_LayoutDecides ==
    (LightDone /\ args.data[1] \in DOMAIN msg_map) =>
        LET fits == LayoutFits(msg_map[args.data[1]], Len(args.data) - 1)
        IN  /\ LightAccepted <=> fits
            /\ ~fits => LightRejected

\* C16: a received frame, heavy or light, whose pid is not registered
\* yields a payload holding its raw data bytes (msg_creator returns the
\* bytes unchanged for an unregistered id), not an error.
C16_UnregisteredPidYieldsRawData ==
    /\ (LightDone /\ args.data[1] \notin DOMAIN msg_map) =>
            /\ LightAccepted
            /\ retval[1] = [pid |-> args.data[1], data |-> Tail(args.data)]
    /\ (HeavyDone /\ PassesLengthCheck /\ CrcMatches
            /\ args.data[1] \notin DOMAIN msg_map) =>
            /\ HeavyAccepted
            /\ retval[1].data = SubSeq(args.data, header_size + 1,
                                       Len(args.data) - crc_size)

\* C17: for every message type of the schema and every instance m that
\* rand() produces, unpack(pack(m)) == m: the autotest of the class ends
\* without an exception, the unpacked message being equal to m.
C17_MessageRoundTrip ==
    /\ fn # "autotest.raised"
    /\ fn = "autotest.returned" => locals.unpacked = locals.inst1

\* the declared domain of a bit: the values of its enum, or the integers
\* of its width
InDomain(bit, value) ==
    IF bit.enum # "" THEN \E i \in DOMAIN Enums[bit.enum] :
                              Enums[bit.enum][i].value = value
    ELSE value \in 0..(Pow2(bit.width) - 1)

AllInDomain ==
    \A i \in DOMAIN args.values :
        InDomain(BitFieldBits(args.name)[i], args.values[i])

\* C18: every combination of bit values inside their domains is packed
\* into a word that holds each value at the position of its bit, and is
\* unpacked from it unchanged; a combination with a value outside its
\* domain is rejected by the constructor, and no other is.
C18_BitfieldRoundTrip ==
    /\ fn = "BitField.pack" => AllInDomain
    /\ fn = "BitField.raised" => ~AllInDomain /\ "bits" \notin DOMAIN locals
    /\ fn \in {"BitField.unpack", "BitField.returned"} =>
        \A i \in DOMAIN args.values :
            (locals.word \div Pow2(BitFieldBits(args.name)[i].position))
                % Pow2(BitFieldBits(args.name)[i].width) = args.values[i]
    /\ fn = "BitField.returned" => retval = Some(args.values)

\* a bitfield with an enum bit and bits off position 0 went round
C18_Witness ==
    /\ fn = "BitField.returned"
    /\ args.name = "flags"
    /\ args.values = <<3, 1, 2>>
    /\ locals.word = 23

\* a field of variable length
IsVariable(f) == f.array /\ f.array_len = -1

\* a field of variable length stands before the last field (as one of two
\* such fields does)
VariableNotLast(fields) ==
    \E i \in DOMAIN fields : IsVariable(fields[i]) /\ i < Len(fields)

\* C19: after a successful load no message and no type has a field of
\* variable length before its last field, so that a schema with such a
\* message or type, or with two such fields in one of them, does not load.
C19_VariableFieldIsLast ==
    fn = "DefsGen.returned" =>
        \A i \in DOMAIN locals.messages :
            ~VariableNotLast(locals.messages[i].fields)

\* no two elements of the list are equal
Distinct(list) == \A i, j \in DOMAIN list : list[i] = list[j] => i = j

\* C20: after a successful load the entries of every enum have distinct
\* names and distinct values and the enums have distinct names, so that a
\* schema with one of these duplicates does not load.
C20_EnumsUnique ==
    fn = "DefsGen.returned" =>
        /\ Distinct([i \in DOMAIN locals.enums |-> locals.enums[i].name])
        /\ \A i \in DOMAIN locals.enums :
            /\ Distinct([k \in DOMAIN locals.enums[i].entries |->
                            locals.enums[i].entries[k].name])
            /\ Distinct([k \in DOMAIN locals.enums[i].entries |->
                            locals.enums[i].entries[k].value])

\* C28: in every reachable framer state the receive buffer is empty
\* whenever the state is WAIT_END; a call of decode returns a value other
\* than None only for an END byte received in STORE_INCOMING, and the
\* payload it returns is not empty.
C28_BufferInvariant ==
    /\ [](state = WAIT_END => rx = << >>)
    /\ [][rets'[Len(rets')] # None =>
            /\ state = STORE_INCOMING
            /\ fed'[Len(fed')] = SLIP_END
            /\ rets'[Len(rets')][1] # << >>]_vars

\* a packet was returned and the framer waits with an empty buffer
C28_Witness ==
    /\ Len(rets) > 2
    /\ rets[Len(rets)] = Some(<<SLIP_ESC>>)
    /\ state = WAIT_END
    /\ rx = << >>

\* C29: in encode(buf) the END byte occurs at the first and at the last
\* position only, and every ESC byte is immediately followed by ESC_END or
\* ESC_ESC.
C29_FrameDelimiting ==
    fn = "encode.returned" =>
        \A k \in DOMAIN retval[1] :
            /\ retval[1][k] = SLIP_END <=> k \in {1, Len(retval[1])}
            /\ retval[1][k] = SLIP_ESC =>
                /\ k < Len(retval[1])
                /\ retval[1][k + 1] \in {SLIP_ESC_END, SLIP_ESC_ESC}

\* a buffer with an END byte and a byte equal to an escape code was encoded
C29_Witness ==
    /\ fn = "encode.returned"
    /\ args.buf = <<SLIP_END, SLIP_ESC_END>>
    /\ retval = Some(<<SLIP_END, SLIP_ESC, SLIP_ESC_END, SLIP_ESC_END, SLIP_END>>)

\* C27: for every message type and every instance m that rand() produces,
\* len(m) is the number of bytes of m.pack(), also for a message with a
\* fixed array before a variable array of another length.
C27_LenIsPackedSize ==
    fn = "len.returned" => locals.length = Len(locals.packed)

\* the value of a field of a basic type is in the domain of the type, or
\* of its enum; for an array, every element is
ValueInDomain(f, v) ==
    IF f.enum # "" THEN \E i \in DOMAIN Enums[f.enum] : Enums[f.enum][i].value = v
    ELSE v \in 0..(Pow2(IF f.base = "uint16_t" THEN 16 ELSE 8) - 1)

FieldInDomain(f, value) ==
    is_ctype(f) =>
        IF f.array THEN \A k \in DOMAIN value : ValueInDomain(f, value[k])
        ELSE ValueInDomain(f, value)

\* C25: the constructor of a message rejects a value of a basic type
\* outside the domain of the type and a value of a field with an enum
\* outside the enum, so that no constructed instance holds such a value.
C25_ConstructorValidates ==
    /\ fn = "Msg.returned" =>
        \A i \in DOMAIN args.cls : FieldInDomain(args.cls[i], retval[1][i])
    /\ fn = "Msg.raised" =>
        \E i \in DOMAIN args.cls : ~FieldInDomain(args.cls[i], args.values[i])

\* C21: after a successful load the names of all types and messages
\* together are distinct, and so are the ids of those that have one,
\* whichever top-level keys the schema has.
C21_NamesAndIdsUnique ==
    fn = "DefsGen.returned" =>
        /\ Distinct([i \in DOMAIN locals.messages |-> locals.messages[i].name])
        /\ \A i, j \in DOMAIN locals.messages :
            /\ locals.messages[i].id # None
            /\ locals.messages[i].id = locals.messages[j].id
            => i = j

\* the highest position a bit occupies
BitTop(bit) == bit.position + bit.width - 1

\* C22: in every bitfield of a loaded schema the position ranges
\* [position, position + width - 1] of any two entries of its bits list
\* are disjoint, widths taken after the override by an enum.
C22_BitsDisjoint ==
    fn = "DefsGen.returned" =>
        \A n \in DOMAIN locals.bitfields :
            \A i, j \in DOMAIN locals.bitfields[n].bits :
                i # j =>
                    \/ BitTop(locals.bitfields[n].bits[i])
                        < locals.bitfields[n].bits[j].position
                    \/ locals.bitfields[n].bits[i].position
                        > BitTop(locals.bitfields[n].bits[j])

\* C23: no schema with a bitfield that occupies a bit above bit 31 loads,
\* whether a message uses the bitfield or not.
C23_BitfieldWithin32Bits ==
    fn = "DefsGen.returned" =>
        \A n \in DOMAIN locals.bitfields :
            \A i \in DOMAIN locals.bitfields[n].bits :
                BitTop(locals.bitfields[n].bits[i]) <= 31

\* the types and messages of a schema, in the order they are loaded
Elements(defs) == defs.types \o MessagesOf(defs)

\* field k of element i of the schema resolves: its base type is a basic
\* type, an element defined before, or a bitfield; its enum, if any, is an
\* enum of the schema; its suffix is none, [] or [N] with N > 0
Resolves(defs, i, k) ==
    /\ \/ Elements(defs)[i].fields[k].base \in {"uint8_t", "uint16_t"}
       \/ \E j \in 1..(i - 1) :
            Elements(defs)[j].name = Elements(defs)[i].fields[k].base
       \/ \E b \in DOMAIN defs.bitfields :
            defs.bitfields[b].name = Elements(defs)[i].fields[k].base
    /\ \/ Elements(defs)[i].fields[k].enum = ""
       \/ \E e \in DOMAIN defs.enums :
            defs.enums[e].name = Elements(defs)[i].fields[k].enum
    /\ Elements(defs)[i].fields[k].suffix \in {"", "[]", "[2]"}

\* C24: a schema loads only if every field of its types and messages
\* resolves.
C24_ReferencesResolved ==
    fn = "DefsGen.returned" =>
        \A i \in DOMAIN Elements(args.defs) :
            \A k \in DOMAIN Elements(args.defs)[i].fields :
                Resolves(args.defs, i, k)

\* the largest value of the enum a bit of a loaded schema is attached to
MaxValueOf(name) ==
    LET e == CHOOSE e \in DOMAIN locals.enums : locals.enums[e].name = name
    IN  CHOOSE v \in {locals.enums[e].entries[k].value :
                        k \in DOMAIN locals.enums[e].entries} :
            \A k \in DOMAIN locals.enums[e].entries :
                locals.enums[e].entries[k].value <= v

\* C26: every bit of a bitfield of a loaded schema has a width of at least
\* 1, and a bit with an enum has the least width w with
\* 2^w >= max_value + 1, whatever width it was declared with.
C26_BitWidths ==
    fn = "DefsGen.returned" =>
        \A n \in DOMAIN locals.bitfields :
            \A i \in DOMAIN locals.bitfields[n].bits :
                /\ locals.bitfields[n].bits[i].width >= 1
                /\ locals.bitfields[n].bits[i].enum # "" =>
                    /\ Pow2(locals.bitfields[n].bits[i].width)
                        >= MaxValueOf(locals.bitfields[n].bits[i].enum) + 1
                    /\ \A w \in 0..(locals.bitfields[n].bits[i].width - 1) :
                        Pow2(w) < MaxValueOf(locals.bitfields[n].bits[i].enum) + 1
\* C30: every call of a generating method that returns, a nested one
\* included, returns the text of the lines it wrote counted from an empty
\* buffer and from level 0, finished and shifted by the decorator, and
\* leaves current_code and current_level as they were when it was called;
\* the level of indentation is never negative
C30_CodegenSaveRestore ==
    /\ [][Len(locals'.calls) < Len(locals.calls) =>
            /\ retval' = Some(Out(locals.calls[Len(locals.calls)].lines,
                                  locals'.n, args.indent,
                                  locals.calls[Len(locals.calls)].level))
            /\ locals'.self.current_code = locals.calls[Len(locals.calls)].code
            /\ locals'.self.current_level = locals.calls[Len(locals.calls)].lvl]_vars
    /\ [](locals.self.current_level >= 0 /\ fn # "codegen.raised")

\* a nested call has returned text to a method that had written lines and
\* indented
C30_Witness ==
    /\ fn = "codegen"
    /\ locals.out # None
    /\ retval # None /\ retval[1] # << >>
    /\ locals.calls # << >>
    /\ locals.self.current_code # << >>
    /\ locals.self.current_level > 0
====
